---- MODULE Spec2Model ----
(***************************************************************************)
(* Component registry, component builder, component uninstaller and prune  *)
(* engine of src/dist/component/components.rs, over a model of the install  *)
(* prefix as a tree of files and directories.                               *)
(*                                                                          *)
(* A path is a sequence of segments; <<>> is the empty relative path, which *)
(* InstallPrefix::abs_path maps to the prefix root.  A text (file content,  *)
(* manifest line) is a sequence of tokens: the special characters           *)
(* ":", "/", "\\", "\n", "\r" and runs of ordinary characters ("file",      *)
(* "share", "a").                                                           *)
(***************************************************************************)
EXTENDS Integers, Sequences, FiniteSets, TLC

VARIABLES fs, ext, pc, txState, changes, name, parts, buf, temp, pset, piter,
          cur, yielded, err, fs0, ext0, copied, moved, fsU, partsU, ops,
          arg, ret,
          PROCESS, HOOK_INSTALLED, hooks, frames, aborted, runs

\* the install prefix with the transaction, builder and uninstaller on it
compVars == <<fs, ext, pc, txState, changes, name, parts, buf, temp, pset, piter,
              cur, yielded, err, fs0, ext0, copied, moved, fsU, partsU, ops>>
\* src/process/mod.rs: the thread-local current process of every thread, the
\* Once and the panic hooks set, the run calls each thread is inside of
procVars == <<PROCESS, HOOK_INSTALLED, hooks, frames, aborted, runs>>

vars == <<compVars, arg, ret, procVars>>

\* ---------------------------------------------------------------- bounds
MaxParts == 2
MaxOps == 2
MaxManifest == 3
MaxPathLen == 3
MaxLineLen == 5
MaxVersionLen == 3
MaxComponentsLen == 4
MaxRuns == 3
MaxArg0Len == 3
MaxCountLen == 2

\* ------------------------------------------------------- program constants
COMPONENTS_FILE == "components"
VERSION_FILE == "version"
INSTALLER_VERSION == <<"3">>
PATH_SEP_MANIFEST == "/"
PATH_SEP_MAIN == "/"
DEFAULT_BUF_SIZE == 8192
RUST_RECURSION_COUNT_MAX == 20

\* ------------------------------------------------------------------ inputs
Names == {"a", "b"}
LegacyName == "c"
FilePaths == {<<"share", "doc", "a">>}
DirPaths == {<<"share", "doc", "b">>, <<"lib">>}
SrcFiles == {"r"}
SrcDirs == {"d"}

\* --------------------------------------------------------- filesystem tree
DirNode == [kind |-> "dir", data |-> <<>>]
FileNode(text) == [kind |-> "file", data |-> text]

EmptyPrefix == (<<>> :> DirNode)

Parent(p) == SubSeq(p, 1, Len(p) - 1)
IsAncestorOrSelf(a, p) == Len(a) <= Len(p) /\ SubSeq(p, 1, Len(a)) = a
IsStrictAncestor(a, p) == Len(a) < Len(p) /\ SubSeq(p, 1, Len(a)) = a
Prefixes(p) == {SubSeq(p, 1, i) : i \in 0..Len(p)}
Suffix(p, q) == SubSeq(q, Len(p) + 1, Len(q))

path_exists(f, p) == p \in DOMAIN f
is_file(f, p) == p \in DOMAIN f /\ f[p].kind = "file"
is_directory(f, p) == p \in DOMAIN f /\ f[p].kind = "dir"
Under(f, p) == {q \in DOMAIN f : IsAncestorOrSelf(p, q)}
Children(f, p) == {q \in DOMAIN f : Len(q) = Len(p) + 1 /\ IsAncestorOrSelf(p, q)}

\* the subtree at p, keyed by paths relative to p
Subtree(f, p) == [r \in {Suffix(p, q) : q \in Under(f, p)} |-> f[p \o r]]
\* f without the subtree at p
Without(f, p) == [q \in DOMAIN f \ Under(f, p) |-> f[q]]
\* f with tree t placed at p
Graft(f, p, t) ==
    [q \in DOMAIN f \cup {p \o r : r \in DOMAIN t} |->
        IF IsAncestorOrSelf(p, q) /\ Suffix(p, q) \in DOMAIN t
        THEN t[Suffix(p, q)] ELSE f[q]]

\* utils::ensure_dir_exists (create_dir_all)
CanEnsureDir(f, d) == \A q \in Prefixes(d) : q \in DOMAIN f => f[q].kind = "dir"
ensure_dir_exists(f, d) ==
    [q \in DOMAIN f \cup Prefixes(d) |-> IF q \in DOMAIN f THEN f[q] ELSE DirNode]

\* variants: only subdirectories are counted; a failed listing counts as empty
read_dir_empty_DirsOnly(f, p) ==
    is_directory(f, p) /\ \A q \in Children(f, p) : f[q].kind # "dir"
read_dir_empty_ErrTrue(f, p) == ~path_exists(f, p) \/ (is_directory(f, p) /\ Children(f, p) = {})

\* std::fs::read_dir(p).count() == 0, false when p cannot be listed
read_dir_empty(f, p) == is_directory(f, p) /\ Children(f, p) = {}

\* contents of the copy/move sources outside the prefix
SrcTree(s) ==
    IF s \in SrcFiles THEN (<<>> :> FileNode(<<s>>))
    ELSE (<<>> :> DirNode) @@ (<<"f">> :> FileNode(<<s>>))

\* ------------------------------------------------------------------- texts
\* str::lines(): split at "\n", drop one "\r" in front of each "\n", no
\* final empty line after a terminating "\n"
RECURSIVE SplitNL(_)
SplitNL(t) ==
    IF t = <<>> THEN <<>>
    ELSE IF \E i \in 1..Len(t) : t[i] = "\n"
         THEN LET i == CHOOSE j \in 1..Len(t) : t[j] = "\n" /\ \A k \in 1..(j - 1) : t[k] # "\n"
              IN <<SubSeq(t, 1, i - 1)>> \o SplitNL(SubSeq(t, i + 1, Len(t)))
         ELSE <<t>>
StripCR(l) == IF l # <<>> /\ l[Len(l)] = "\r" THEN SubSeq(l, 1, Len(l) - 1) ELSE l
lines(t) ==
    [i \in 1..Len(SplitNL(t)) |->
        IF i = Len(SplitNL(t)) /\ t[Len(t)] # "\n" THEN SplitNL(t)[i]
        ELSE StripCR(SplitNL(t)[i])]

\* str::trim: leading and trailing whitespace removed
is_whitespace(c) == c \in {" ", "\t", "\n", "\r"}
RECURSIVE trim_start(_)
trim_start(t) == IF t # <<>> /\ is_whitespace(Head(t)) THEN trim_start(Tail(t)) ELSE t
RECURSIVE trim_end(_)
trim_end(t) ==
    IF t # <<>> /\ is_whitespace(t[Len(t)]) THEN trim_end(SubSeq(t, 1, Len(t) - 1)) ELSE t
trim(t) == trim_end(trim_start(t))

\* Path::to_string_lossy: what is not valid Unicode becomes U+FFFD
INVALID == "<invalid>"
REPLACEMENT_CHARACTER == "<U+FFFD>"
to_string_lossy(t) == [i \in 1..Len(t) |-> IF t[i] = INVALID THEN REPLACEMENT_CHARACTER ELSE t[i]]

\* str::replace on single-token patterns
replace(t, from, to) == [i \in 1..Len(t) |-> IF t[i] = from THEN to ELSE t[i]]

\* a relative PathBuf as a string over separator sep, and back; where the
\* main separator is "\\" the path parser takes "/" for a separator too
is_separator(sep, tok) == tok = sep \/ (sep = "\\" /\ tok = "/")
RECURSIVE PathToStr(_, _)
PathToStr(sep, p) ==
    IF p = <<>> THEN <<>>
    ELSE IF Len(p) = 1 THEN <<p[1]>>
    ELSE <<p[1], sep>> \o PathToStr(sep, Tail(p))
RECURSIVE PathFromStrAcc(_, _, _)
PathFromStrAcc(sep, s, acc) ==
    IF s = <<>> THEN (IF acc = "" THEN <<>> ELSE <<acc>>)
    ELSE IF is_separator(sep, s[1])
         THEN (IF acc = "" THEN <<>> ELSE <<acc>>) \o PathFromStrAcc(sep, Tail(s), "")
         ELSE PathFromStrAcc(sep, Tail(s), acc \o s[1])
PathFromStr(sep, s) == PathFromStrAcc(sep, s, "")

\* ---------------------------------------------------------- install prefix
METADATA_ROOT == <<"lib", "rustlib">>
rel_manifest_file(nm) == METADATA_ROOT \o <<nm>>
rel_components_file == rel_manifest_file(COMPONENTS_FILE)
rel_component_manifest(n) == rel_manifest_file("manifest-" \o n)
rel_version_file == rel_manifest_file(VERSION_FILE)

\* ------------------------------------------------------------ part codec
KindFile == [variant |-> "File", s |-> <<>>]
KindDir == [variant |-> "Dir", s |-> <<>>]
KindUnknown(s) == [variant |-> "Unknown", s |-> s]
ComponentPart(k, p) == [kind |-> k, path |-> p]

\* impl Display for ComponentPartKind
kind_to_string(k) ==
    IF k.variant = "File" THEN <<"file">>
    ELSE IF k.variant = "Dir" THEN <<"dir">>
    ELSE k.s

\* impl FromStr for ComponentPartKind
kind_from_str(s) ==
    IF s = <<"file">> THEN KindFile
    ELSE IF s = <<"dir">> THEN KindDir
    ELSE KindUnknown(s)

\* variant: the host separator is written as it is
encodeOn_NoNormalize(sep, part) ==
    kind_to_string(part.kind) \o <<":">> \o to_string_lossy(PathToStr(sep, part.path))

\* ComponentPart::encode on a host whose main separator is sep
encodeOn(sep, part) ==
    LET path == to_string_lossy(PathToStr(sep, part.path))
    IN kind_to_string(part.kind) \o <<":">> \o
       (IF sep # PATH_SEP_MANIFEST THEN replace(path, sep, PATH_SEP_MANIFEST) ELSE path)
encode(part) == encodeOn(PATH_SEP_MAIN, part)

None == [some |-> FALSE]
Some(v) == [some |-> TRUE, val |-> v]

\* variants: the path starts at the ':' itself; the line is split at its
\* last ':'
decodeOn_KeepColon(sep, line) ==
    IF \A i \in 1..Len(line) : line[i] # ":" THEN None
    ELSE LET pos == CHOOSE j \in 1..Len(line) :
                        line[j] = ":" /\ \A k \in 1..(j - 1) : line[k] # ":"
             rest == SubSeq(line, pos, Len(line))
             path_str == IF PATH_SEP_MANIFEST # sep
                         THEN replace(rest, PATH_SEP_MANIFEST, sep) ELSE rest
         IN Some(ComponentPart(kind_from_str(SubSeq(line, 1, pos - 1)),
                               PathFromStr(sep, path_str)))
decodeOn_LastColon(sep, line) ==
    IF \A i \in 1..Len(line) : line[i] # ":" THEN None
    ELSE LET pos == CHOOSE j \in 1..Len(line) :
                        line[j] = ":" /\ \A k \in (j + 1)..Len(line) : line[k] # ":"
             rest == SubSeq(line, pos + 1, Len(line))
             path_str == IF PATH_SEP_MANIFEST # sep
                         THEN replace(rest, PATH_SEP_MANIFEST, sep) ELSE rest
         IN Some(ComponentPart(kind_from_str(SubSeq(line, 1, pos - 1)),
                               PathFromStr(sep, path_str)))

\* ComponentPart::decode on a host whose main separator is sep
decodeOn(sep, line) ==
    IF \A i \in 1..Len(line) : line[i] # ":" THEN None
    ELSE LET pos == CHOOSE j \in 1..Len(line) :
                        line[j] = ":" /\ \A k \in 1..(j - 1) : line[k] # ":"
             rest == SubSeq(line, pos + 1, Len(line))
             path_str == IF PATH_SEP_MANIFEST # sep
                         THEN replace(rest, PATH_SEP_MANIFEST, sep) ELSE rest
         IN Some(ComponentPart(kind_from_str(SubSeq(line, 1, pos - 1)),
                               PathFromStr(sep, path_str)))
decode(line) == decodeOn(PATH_SEP_MAIN, line)

\* ------------------------------------------------------------ transaction
\* A verb's outcome: ok, the prefix tree and the sources afterwards, and the
\* change-log entries it appends.
Entry(t, p, has, b) == [type |-> t, path |-> p, has |-> has, backup |-> b]
NoTree == [q \in {} |-> DirNode]
Fail(f, e) == [ok |-> FALSE, fs |-> f, ext |-> e, log |-> <<>>]
Done(f, e, entry) == [ok |-> TRUE, fs |-> f, ext |-> e, log |-> <<entry>>]

\* destination is free and its containing directory can be made
DestOK(f, p) == p # <<>> /\ ~path_exists(f, p) /\ CanEnsureDir(f, Parent(p))
Place(f, p, t) == Graft(ensure_dir_exists(f, Parent(p)), p, t)

tx_add_file(f, e, p) ==
    IF DestOK(f, p)
    THEN Done(Place(f, p, (<<>> :> FileNode(<<>>))), e, Entry("CreatedFile", p, FALSE, NoTree))
    ELSE Fail(f, e)
tx_copy_file(f, e, p, src) ==
    IF DestOK(f, p) /\ src \in e /\ src \in SrcFiles
    THEN Done(Place(f, p, SrcTree(src)), e, Entry("CreatedFile", p, FALSE, NoTree))
    ELSE Fail(f, e)
tx_copy_dir(f, e, p, src) ==
    IF DestOK(f, p) /\ src \in e /\ src \in SrcDirs
    THEN Done(Place(f, p, SrcTree(src)), e, Entry("CreatedDir", p, FALSE, NoTree))
    ELSE Fail(f, e)
tx_move_file(f, e, p, src) ==
    IF DestOK(f, p) /\ src \in e /\ src \in SrcFiles
    THEN Done(Place(f, p, SrcTree(src)), e \ {src}, Entry("CreatedFile", p, FALSE, NoTree))
    ELSE Fail(f, e)
tx_move_dir(f, e, p, src) ==
    IF DestOK(f, p) /\ src \in e /\ src \in SrcDirs
    THEN Done(Place(f, p, SrcTree(src)), e \ {src}, Entry("CreatedDir", p, FALSE, NoTree))
    ELSE Fail(f, e)
tx_modify_file(f, e, p) ==
    IF is_file(f, p)
    THEN Done(f, e, Entry("ModifiedFile", p, TRUE, Subtree(f, p)))
    ELSE IF ~path_exists(f, p)
         THEN Done(f, e, Entry("ModifiedFile", p, FALSE, NoTree))
         ELSE Fail(f, e)
tx_remove_file(f, e, p) ==
    IF is_file(f, p)
    THEN Done(Without(f, p), e, Entry("RemovedFile", p, TRUE, Subtree(f, p)))
    ELSE Fail(f, e)
tx_remove_dir(f, e, p) ==
    IF is_directory(f, p)
    THEN Done(Without(f, p), e, Entry("RemovedDir", p, TRUE, Subtree(f, p)))
    ELSE Fail(f, e)

\* the reverse of one change-log entry; a reversal that cannot be applied is
\* a secondary failure and leaves the tree as it is
CanRestore(f, p) == p = <<>> \/ is_directory(f, Parent(p))
roll_back(f, c) ==
    IF c.type = "CreatedFile"
    THEN (IF is_file(f, c.path) THEN Without(f, c.path) ELSE f)
    ELSE IF c.type = "CreatedDir"
    THEN (IF path_exists(f, c.path) THEN Without(f, c.path) ELSE f)
    ELSE IF c.type = "ModifiedFile" /\ ~c.has
    THEN (IF is_file(f, c.path) THEN Without(f, c.path) ELSE f)
    ELSE IF c.type \in {"ModifiedFile", "RemovedFile"}
    THEN (IF CanRestore(f, c.path) /\ ~is_directory(f, c.path)
          THEN Graft(f, c.path, c.backup) ELSE f)
    ELSE (IF CanRestore(f, c.path) /\ (~path_exists(f, c.path) \/ read_dir_empty(f, c.path))
          THEN Graft(f, c.path, c.backup) ELSE f)

\* ------------------------------------------------------------- utilities
read_file(f, p) == f[p].data
write_file(f, p, text) == (p :> FileNode(text)) @@ f
\* utils::append_file: open for append (creating the file) and write the line
append_file(f, p, line) ==
    write_file(f, p, (IF is_file(f, p) THEN f[p].data ELSE <<>>) \o line \o <<"\n">>)
\* utils::filter_file: the kept lines of the text, each written with writeln!
RECURSIVE filter_lines(_, _)
filter_lines(ls, n) ==
    IF ls = <<>> THEN <<>>
    ELSE (IF Head(ls) # <<n>> THEN Head(ls) \o <<"\n">> ELSE <<>>) \o filter_lines(Tail(ls), n)

\* BufWriter::write_all of one piece onto (the file's data, the buffer)
BufState(disk, b) == [disk |-> disk, buf |-> b]
buf_write(st, data) ==
    LET flushed == IF Len(st.buf) + Len(data) > DEFAULT_BUF_SIZE
                   THEN BufState(st.disk \o st.buf, <<>>) ELSE st
    IN IF Len(data) >= DEFAULT_BUF_SIZE
       THEN BufState(flushed.disk \o data, flushed.buf)
       ELSE BufState(flushed.disk, flushed.buf \o data)
\* utils::write_line for each part of the builder, in order
RECURSIVE write_lines(_, _)
write_lines(st, ps) ==
    IF ps = <<>> THEN st
    ELSE write_lines(buf_write(st, encode(Head(ps)) \o <<"\n">>), Tail(ps))
\* drop of the BufWriter: the buffer goes to the file if it is still there
flush(f, p, b) == IF is_file(f, p) THEN write_file(f, p, f[p].data \o b) ELSE f

\* ------------------------------------------------------------- registry
\* variant: the content is split at every "\n", which leaves a last empty piece
list_SplitNewline(f) ==
    IF ~is_file(f, rel_components_file) THEN <<>>
    ELSE LET t == read_file(f, rel_components_file)
         IN IF t = <<>> \/ t[Len(t)] = "\n" THEN SplitNL(t) \o <<<<>>>> ELSE SplitNL(t)

\* Components::list, as the names
list(f) ==
    IF ~is_file(f, rel_components_file) THEN <<>>
    ELSE lines(read_file(f, rel_components_file))
Listed(f) == {list(f)[i] : i \in 1..Len(list(f))}

\* variant: the content is compared as it is
read_version_NoTrim(f) ==
    IF is_file(f, rel_version_file) THEN Some(read_file(f, rel_version_file)) ELSE None

\* Components::read_version
read_version(f) ==
    IF is_file(f, rel_version_file) THEN Some(trim(read_file(f, rel_version_file))) ELSE None

\* Components::open: the outcome, Ok or the error of the bail!
open(f) ==
    LET v == read_version(f)
    IN IF v.some /\ v.val # INSTALLER_VERSION
       THEN [ok |-> FALSE, err |-> "unsupported metadata version", found |-> v.val]
       ELSE [ok |-> TRUE]

\* Components::find: the first listed component of that name
find(f, n) ==
    LET hits == {i \in 1..Len(list(f)) : list(f)[i] = <<n>>}
    IN IF hits = {} THEN None
       ELSE Some(list(f)[CHOOSE i \in hits : \A j \in hits : i <= j])

\* ------------------------------------------------------------ prune engine
EmptyPruneSet == [dirs |-> {}, ancestors |-> {}]

\* variant: a dominated candidate is left in dirs
RECURSIVE seen_walk_KeepDominated(_, _)
seen_walk_KeepDominated(ps, path) ==
    IF path = <<>> THEN ps
    ELSE LET up == Parent(path)
         IN IF up = <<>> THEN ps
            ELSE IF up \in ps.ancestors THEN ps
                 ELSE seen_walk_KeepDominated([ps EXCEPT !.ancestors = @ \cup {up}], up)

\* the while loop of PruneSet::seen, path already inserted into dirs
RECURSIVE seen_walk(_, _)
seen_walk(ps, path) ==
    IF path = <<>> THEN ps
    ELSE LET up == Parent(path)
         IN IF up = <<>> THEN ps
            ELSE LET d == ps.dirs \ {up}
                 IN IF up \in ps.ancestors THEN [ps EXCEPT !.dirs = d]
                    ELSE seen_walk([dirs |-> d, ancestors |-> ps.ancestors \cup {up}], up)

seen(ps, path) ==
    IF path = <<>> THEN ps
    ELSE LET d == Parent(path)
         IN IF d \in ps.dirs \/ d \in ps.ancestors THEN ps
            ELSE seen_walk([ps EXCEPT !.dirs = @ \cup {d}], d)

into_iter(ps) == [iter |-> ps.dirs, path_buf |-> None]

\* HashSet IntoIter::next: any remaining element
iter_next(S) ==
    IF S = {} THEN {[iter |-> {}, v |-> None]}
    ELSE {[iter |-> S \ {d}, v |-> Some(d)] : d \in S}

\* variant: the directory is yielded without being listed
prune_next_NoCheck(it, f) ==
    LET advanced ==
            IF ~it.path_buf.some THEN iter_next(it.iter)
            ELSE IF it.path_buf.val # <<>>
                 THEN {[iter |-> it.iter, v |-> Some(Parent(it.path_buf.val))]}
                 ELSE iter_next(it.iter)
    IN {[it |-> [iter |-> a.iter, path_buf |-> a.v], item |-> a.v] : a \in advanced}

\* PruneIter::next: the possible (iterator afterwards, item) pairs
RECURSIVE prune_next(_, _)
prune_next(it, f) ==
    LET advanced ==
            IF ~it.path_buf.some THEN iter_next(it.iter)
            ELSE IF it.path_buf.val # <<>>
                 THEN {[iter |-> it.iter, v |-> Some(Parent(it.path_buf.val))]}
                 ELSE iter_next(it.iter)
        after(a) ==
            IF ~a.v.some THEN {[it |-> [iter |-> a.iter, path_buf |-> None], item |-> None]}
            ELSE IF read_dir_empty(f, a.v.val)
                 THEN {[it |-> [iter |-> a.iter, path_buf |-> a.v], item |-> a.v]}
                 ELSE prune_next([iter |-> a.iter, path_buf |-> None], f)
    IN UNION {after(a) : a \in advanced}

\* ------------------------------------------------------- initial prefixes
\* an installation left by another installer: component "c" whose manifest
\* has a part of a kind this version does not know
LegacyManifest ==
    <<"link", ":", "share", "/", "x", "\n">> \o
    <<"file", ":", "share", "/", "doc", "/", "c", "\n">>
LegacyPrefix ==
    (<<>> :> DirNode) @@ (<<"lib">> :> DirNode) @@ (METADATA_ROOT :> DirNode) @@
    (<<"share">> :> DirNode) @@ (<<"share", "doc">> :> DirNode) @@
    (<<"share", "doc", "c">> :> FileNode(<<"c">>)) @@
    (<<"share", "x">> :> FileNode(<<"x">>)) @@
    (rel_components_file :> FileNode(<<LegacyName, "\n">>)) @@
    (rel_version_file :> FileNode(INSTALLER_VERSION)) @@
    (rel_component_manifest(LegacyName) :> FileNode(LegacyManifest))
\* an installation made by earlier transactions: component "a" owns the
\* directory share/doc/b, into which component "b" has copied its file g
SharedPrefix ==
    (<<>> :> DirNode) @@ (<<"lib">> :> DirNode) @@ (METADATA_ROOT :> DirNode) @@
    (<<"share">> :> DirNode) @@ (<<"share", "doc">> :> DirNode) @@
    (<<"share", "doc", "b">> :> DirNode) @@
    (<<"share", "doc", "b", "f">> :> FileNode(<<"d">>)) @@
    (<<"share", "doc", "b", "g">> :> FileNode(<<"r">>)) @@
    (rel_components_file :> FileNode(<<"a", "\n", "b", "\n">>)) @@
    (rel_version_file :> FileNode(INSTALLER_VERSION)) @@
    (rel_component_manifest("a") :>
        FileNode(encode(ComponentPart(KindDir, <<"share", "doc", "b">>)) \o <<"\n">>)) @@
    (rel_component_manifest("b") :>
        FileNode(encode(ComponentPart(KindFile, <<"share", "doc", "b", "g">>)) \o <<"\n">>))
InitialPrefixes == {EmptyPrefix, LegacyPrefix, SharedPrefix}

\* ids of the process definitions and the threads that run them
Threads == {"t1", "t2"}
ProcIds == {1, 2}

\* thread_local PROCESS = RefCell::new(None), HOOK_INSTALLED = Once::new()
ProcInit ==
    /\ PROCESS = [t \in Threads |-> None]
    /\ HOOK_INSTALLED = FALSE
    /\ hooks = 0
    /\ frames = [t \in Threads |-> <<>>]
    /\ aborted = FALSE
    /\ runs = 0

InitFrom(prefixes) ==
    /\ ProcInit
    /\ fs \in prefixes
    /\ ext = SrcFiles \cup SrcDirs
    /\ pc = "idle"
    /\ txState = "none"
    /\ changes = <<>>
    /\ name = ""
    /\ parts = <<>>
    /\ buf = <<>>
    /\ temp = <<>>
    /\ pset = EmptyPruneSet
    /\ piter = into_iter(EmptyPruneSet)
    /\ cur = None
    /\ yielded = <<>>
    /\ err = "none"
    /\ fs0 = fs
    /\ ext0 = ext
    /\ copied = {}
    /\ moved = {}
    /\ fsU = NoTree
    /\ partsU = <<>>
    /\ ops = 0

\* no operation under test, no result
NoArg == [what |-> "none"]
NoResult == [op |-> "none"]

Init ==
    /\ InitFrom(InitialPrefixes)
    /\ arg = NoArg
    /\ ret = NoResult

\* ------------------------------------------------------------ transaction
\* Transaction::new
Begin ==
    /\ pc = "idle"
    /\ ret' = NoResult
    /\ UNCHANGED <<arg, procVars>>
    /\ pc' = "open"
    /\ txState' = "open"
    /\ changes' = <<>>
    /\ fs0' = fs
    /\ ext0' = ext
    /\ copied' = {}
    /\ moved' = {}
    /\ err' = "none"
    /\ UNCHANGED <<fs, ext, name, parts, buf, temp, pset, piter, cur, yielded, fsU, partsU, ops>>

\* variant: the change log survives the commit
Commit_KeepLog ==
    /\ UNCHANGED <<arg, ret, procVars>>
    /\ pc = "open"
    /\ pc' = "committed"
    /\ txState' = "committed"
    /\ UNCHANGED <<fs, ext, changes, name, parts, buf, temp, pset, piter, cur, yielded, err,
                   fs0, ext0, copied, moved, fsU, partsU, ops>>

\* Transaction::commit: the change log is drained and the backups deleted
Commit ==
    /\ UNCHANGED <<arg, ret, procVars>>
    /\ pc = "open"
    /\ pc' = "committed"
    /\ txState' = "committed"
    /\ changes' = <<>>
    /\ UNCHANGED <<fs, ext, name, parts, buf, temp, pset, piter, cur, yielded, err,
                   fs0, ext0, copied, moved, fsU, partsU, ops>>

\* what a finished transaction leaves behind in the caller
Forget ==
    /\ UNCHANGED <<arg, ret, procVars>>
    /\ pc' = "idle"
    /\ name' = ""
    /\ parts' = <<>>
    /\ temp' = <<>>
    /\ pset' = EmptyPruneSet
    /\ piter' = into_iter(EmptyPruneSet)
    /\ cur' = None
    /\ yielded' = <<>>
    /\ fs0' = fs
    /\ ext0' = ext
    /\ copied' = {}
    /\ moved' = {}
    /\ fsU' = NoTree
    /\ partsU' = <<>>
    /\ UNCHANGED <<fs, ext, txState, changes, buf, err, ops>>

\* a committed transaction goes out of scope: nothing is reversed
DropCommitted ==
    /\ pc = "committed"
    /\ Forget

\* the transaction, or the builder that owns it, goes out of scope
Drop ==
    /\ UNCHANGED <<arg, ret, procVars>>
    /\ pc \in {"open", "building"}
    /\ pc' = "rollback"
    /\ UNCHANGED <<fs, ext, txState, changes, name, parts, buf, temp, pset, piter,
                   cur, yielded, err, fs0, ext0, copied, moved, fsU, partsU, ops>>

\* variant: the oldest entry is reversed first
RollbackStep_FIFO ==
    /\ UNCHANGED <<arg, ret, procVars>>
    /\ pc = "rollback"
    /\ changes # <<>>
    /\ fs' = roll_back(fs, Head(changes))
    /\ changes' = Tail(changes)
    /\ UNCHANGED <<ext, pc, txState, name, parts, buf, temp, pset, piter,
                   cur, yielded, err, fs0, ext0, copied, moved, fsU, partsU, ops>>

\* impl Drop for Transaction: one entry is reversed, last first
RollbackStep ==
    /\ UNCHANGED <<arg, ret, procVars>>
    /\ pc = "rollback"
    /\ changes # <<>>
    /\ fs' = roll_back(fs, changes[Len(changes)])
    /\ changes' = SubSeq(changes, 1, Len(changes) - 1)
    /\ UNCHANGED <<ext, pc, txState, name, parts, buf, temp, pset, piter,
                   cur, yielded, err, fs0, ext0, copied, moved, fsU, partsU, ops>>

\* the change log is exhausted: the transaction is rolled back
RollbackDone ==
    /\ UNCHANGED <<arg, ret, procVars>>
    /\ pc = "rollback"
    /\ changes = <<>>
    /\ pc' = "rolledback"
    /\ txState' = "rolledback"
    /\ UNCHANGED <<fs, ext, changes, name, parts, buf, temp, pset, piter, cur, yielded, err,
                   fs0, ext0, copied, moved, fsU, partsU, ops>>

DropRolledBack ==
    /\ pc = "rolledback"
    /\ Forget

\* a verb's outcome applied to the transaction: on failure the error is
\* propagated and the transaction dropped
Apply(r, okpc, e) ==
    /\ fs' = r.fs
    /\ ext' = r.ext
    /\ changes' = changes \o r.log
    /\ pc' = IF r.ok THEN okpc ELSE "rollback"
    /\ err' = IF r.ok THEN err ELSE e

\* ---------------------------------------------------------------- builder
\* Components::add
Add(n) ==
    /\ UNCHANGED <<arg, ret, procVars>>
    /\ pc = "open"
    /\ ops < MaxOps
    /\ ops' = ops + 1
    /\ pc' = "building"
    /\ name' = n
    /\ parts' = <<>>
    /\ fsU' = NoTree
    /\ partsU' = <<>>
    /\ UNCHANGED <<fs, ext, txState, changes, buf, temp, pset, piter, cur, yielded,
                   err, fs0, ext0, copied, moved>>

BuilderVerb(kind, path, r) ==
    /\ UNCHANGED <<arg, ret, procVars>>
    /\ pc = "building"
    /\ Len(parts) < MaxParts
    /\ parts' = Append(parts, ComponentPart(kind, path))
    /\ Apply(r, "building", "ComponentConflict")
    /\ UNCHANGED <<txState, name, buf, temp, pset, piter, cur, yielded, fs0, ext0, fsU, partsU, ops>>

copy_file(path, src) ==
    /\ BuilderVerb(KindFile, path, tx_copy_file(fs, ext, path, src))
    /\ copied' = copied \cup {src}
    /\ UNCHANGED moved
copy_dir(path, src) ==
    /\ BuilderVerb(KindDir, path, tx_copy_dir(fs, ext, path, src))
    /\ copied' = copied \cup {src}
    /\ UNCHANGED moved
move_file(path, src) ==
    /\ BuilderVerb(KindFile, path, tx_move_file(fs, ext, path, src))
    /\ moved' = moved \cup {src}
    /\ UNCHANGED copied
move_dir(path, src) ==
    /\ BuilderVerb(KindDir, path, tx_move_dir(fs, ext, path, src))
    /\ moved' = moved \cup {src}
    /\ UNCHANGED copied

\* variant: an existing manifest is opened for writing again
FinishAddFile_Overwrite ==
    /\ UNCHANGED <<arg, ret, procVars>>
    /\ pc = "building"
    /\ IF is_file(fs, rel_component_manifest(name))
       THEN /\ fs' = write_file(fs, rel_component_manifest(name), <<>>)
            /\ pc' = "f_write"
            /\ UNCHANGED <<ext, changes, err>>
       ELSE Apply(tx_add_file(fs, ext, rel_component_manifest(name)), "f_write", "ComponentConflict")
    /\ buf' = <<>>
    /\ UNCHANGED <<txState, name, parts, temp, pset, piter, cur, yielded, fs0, ext0, copied, moved, fsU, partsU, ops>>

\* ComponentBuilder::finish, statement by statement
FinishAddFile ==
    /\ UNCHANGED <<arg, ret, procVars>>
    /\ pc = "building"
    /\ Apply(tx_add_file(fs, ext, rel_component_manifest(name)), "f_write", "ComponentConflict")
    /\ buf' = <<>>
    /\ UNCHANGED <<txState, name, parts, temp, pset, piter, cur, yielded, fs0, ext0, copied, moved, fsU, partsU, ops>>

FinishWriteLines ==
    /\ UNCHANGED <<arg, ret, procVars>>
    /\ pc = "f_write"
    /\ LET m == rel_component_manifest(name)
           st == write_lines(BufState(read_file(fs, m), buf), parts)
       IN /\ fs' = write_file(fs, m, st.disk)
          /\ buf' = st.buf
    /\ pc' = "f_modify"
    /\ UNCHANGED <<ext, txState, changes, name, parts, temp, pset, piter, cur, yielded,
                   err, fs0, ext0, copied, moved, fsU, partsU, ops>>

\* a failing statement of finish returns early: the BufWriter is dropped,
\* then the builder with its transaction
FinishTxStep(from, r, okpc) ==
    /\ UNCHANGED <<arg, ret, procVars>>
    /\ pc = from
    /\ changes' = changes \o r.log
    /\ ext' = r.ext
    /\ IF r.ok
       THEN /\ fs' = r.fs
            /\ pc' = okpc
            /\ UNCHANGED <<buf, err>>
       ELSE /\ fs' = flush(r.fs, rel_component_manifest(name), buf)
            /\ buf' = <<>>
            /\ pc' = "rollback"
            /\ err' = "FilesystemError"
    /\ UNCHANGED <<txState, name, parts, temp, pset, piter, cur, yielded, fs0, ext0, copied, moved, fsU, partsU, ops>>

FinishModifyComponents ==
    FinishTxStep("f_modify", tx_modify_file(fs, ext, rel_components_file), "f_append")

\* variant: the components file is overwritten with the name
FinishAppendName_Overwrite ==
    /\ UNCHANGED <<arg, ret, procVars>>
    /\ pc = "f_append"
    /\ fs' = write_file(fs, rel_components_file, <<name, "\n">>)
    /\ pc' = "f_vmodify"
    /\ UNCHANGED <<ext, txState, changes, name, parts, buf, temp, pset, piter, cur, yielded,
                   err, fs0, ext0, copied, moved, fsU, partsU, ops>>

FinishAppendName ==
    /\ UNCHANGED <<arg, ret, procVars>>
    /\ pc = "f_append"
    /\ fs' = append_file(fs, rel_components_file, <<name>>)
    /\ pc' = "f_vmodify"
    /\ UNCHANGED <<ext, txState, changes, name, parts, buf, temp, pset, piter, cur, yielded,
                   err, fs0, ext0, copied, moved, fsU, partsU, ops>>

\* variant: the version file is written without being recorded
WriteVersionModify_NoLog ==
    /\ UNCHANGED <<arg, ret, procVars>>
    /\ pc = "f_vmodify"
    /\ pc' = "f_vwrite"
    /\ UNCHANGED <<fs, ext, txState, changes, name, parts, buf, temp, pset, piter, cur, yielded,
                   err, fs0, ext0, copied, moved, fsU, partsU, ops>>

\* Components::write_version
WriteVersionModify ==
    FinishTxStep("f_vmodify", tx_modify_file(fs, ext, rel_version_file), "f_vwrite")

WriteVersionWrite ==
    /\ UNCHANGED <<arg, ret, procVars>>
    /\ pc = "f_vwrite"
    /\ fs' = write_file(fs, rel_version_file, INSTALLER_VERSION)
    /\ pc' = "f_return"
    /\ UNCHANGED <<ext, txState, changes, name, parts, buf, temp, pset, piter, cur, yielded,
                   err, fs0, ext0, copied, moved, fsU, partsU, ops>>

\* variant: the buffer is lost
FinishReturn_NoFlush ==
    /\ UNCHANGED <<arg, ret, procVars>>
    /\ pc = "f_return"
    /\ buf' = <<>>
    /\ pc' = "open"
    /\ UNCHANGED <<fs, ext, txState, changes, name, parts, temp, pset, piter, cur, yielded,
                   err, fs0, ext0, copied, moved, fsU, partsU, ops>>

\* Ok(self.tx): the BufWriter goes out of scope and writes its buffer
FinishReturn ==
    /\ UNCHANGED <<arg, ret, procVars>>
    /\ pc = "f_return"
    /\ fs' = flush(fs, rel_component_manifest(name), buf)
    /\ buf' = <<>>
    /\ pc' = "open"
    /\ UNCHANGED <<ext, txState, changes, name, parts, temp, pset, piter, cur, yielded,
                   err, fs0, ext0, copied, moved, fsU, partsU, ops>>

\* ------------------------------------------------------------ uninstaller
\* Component::parts: the decoded lines of the manifest, none if one of them
\* cannot be decoded
component_parts(f, n) ==
    LET ls == lines(read_file(f, rel_component_manifest(n)))
    IN IF \E i \in 1..Len(ls) : ~decode(ls[i]).some THEN None
       ELSE Some([i \in 1..Len(ls) |-> decode(ls[i]).val])

UninstallStep(from) ==
    /\ UNCHANGED <<arg, ret, procVars>>
    /\ pc = from
    /\ UNCHANGED <<txState, name, buf, fs0, ext0, copied, moved, fsU, ops>>

\* Component::uninstall on a handle that Components::find returned:
\* the components file without the name goes to a scratch file
UninstallFilter(n) ==
    /\ UNCHANGED <<arg, ret, procVars>>
    /\ pc = "open"
    /\ <<n>> \in Listed(fs)
    /\ ops < MaxOps
    /\ ops' = ops + 1
    /\ name' = n
    /\ temp' = filter_lines(lines(read_file(fs, rel_components_file)), n)
    /\ pc' = "u_modify"
    /\ parts' = <<>>
    /\ fsU' = fs
    /\ partsU' = <<>>
    /\ UNCHANGED <<fs, ext, txState, changes, buf, pset, piter, cur, yielded, err,
                   fs0, ext0, copied, moved>>

UninstallModifyComponents ==
    /\ UninstallStep("u_modify")
    /\ Apply(tx_modify_file(fs, ext, rel_components_file), "u_rename", "FilesystemError")
    /\ UNCHANGED <<partsU, parts, temp, pset, piter, cur, yielded>>

\* variant: the filtered text is discarded, the components file stays as it is
UninstallRename_KeepName ==
    /\ UninstallStep("u_rename")
    /\ temp' = <<>>
    /\ pc' = "u_parts"
    /\ UNCHANGED <<partsU, fs, ext, changes, parts, pset, piter, cur, yielded, err>>

\* utils::rename of the scratch file over the components file
UninstallRename ==
    /\ UninstallStep("u_rename")
    /\ fs' = write_file(fs, rel_components_file, temp)
    /\ temp' = <<>>
    /\ pc' = "u_parts"
    /\ UNCHANGED <<partsU, ext, changes, parts, pset, piter, cur, yielded, err>>

UninstallReadParts ==
    /\ UninstallStep("u_parts")
    /\ pset' = EmptyPruneSet
    /\ IF is_file(fs, rel_component_manifest(name)) /\ component_parts(fs, name).some
       THEN /\ parts' = component_parts(fs, name).val
            /\ partsU' = component_parts(fs, name).val
            /\ pc' = "u_remove"
            /\ UNCHANGED err
       ELSE /\ parts' = <<>>
            /\ partsU' = <<>>
            /\ pc' = "rollback"
            /\ err' = IF is_file(fs, rel_component_manifest(name))
                      THEN "CorruptComponent" ELSE "FilesystemError"
    /\ UNCHANGED <<fs, ext, changes, temp, piter, cur, yielded>>

\* variant: a part of unknown kind is passed over
UninstallRemovePart_SkipUnknown ==
    /\ UninstallStep("u_remove")
    /\ parts # <<>>
    /\ LET part == parts[Len(parts)]
       IN /\ parts' = SubSeq(parts, 1, Len(parts) - 1)
          /\ IF part.kind.variant = "File"
             THEN Apply(tx_remove_file(fs, ext, part.path), "u_remove", "ComponentMissingFile")
             ELSE IF part.kind.variant = "Dir"
             THEN Apply(tx_remove_dir(fs, ext, part.path), "u_remove", "ComponentMissingDir")
             ELSE /\ pc' = "u_remove"
                  /\ UNCHANGED <<fs, ext, changes, err>>
          /\ pset' = IF pc' = "u_remove" /\ part.kind.variant # "Unknown"
                     THEN seen(pset, part.path) ELSE pset
    /\ UNCHANGED <<partsU, temp, piter, cur, yielded>>

\* variant: the parts are taken in declaration order
UninstallRemovePart_Forward ==
    /\ UninstallStep("u_remove")
    /\ parts # <<>>
    /\ LET part == Head(parts)
       IN /\ parts' = Tail(parts)
          /\ IF part.kind.variant = "File"
             THEN Apply(tx_remove_file(fs, ext, part.path), "u_remove", "ComponentMissingFile")
             ELSE IF part.kind.variant = "Dir"
             THEN Apply(tx_remove_dir(fs, ext, part.path), "u_remove", "ComponentMissingDir")
             ELSE /\ pc' = "rollback"
                  /\ err' = "CorruptComponent"
                  /\ UNCHANGED <<fs, ext, changes>>
          /\ pset' = IF pc' = "u_remove" THEN seen(pset, part.path) ELSE pset
    /\ UNCHANGED <<partsU, temp, piter, cur, yielded>>

\* one pass of the loop over the parts, last part first
UninstallRemovePart ==
    /\ UninstallStep("u_remove")
    /\ parts # <<>>
    /\ LET part == parts[Len(parts)]
       IN /\ parts' = SubSeq(parts, 1, Len(parts) - 1)
          /\ IF part.kind.variant = "File"
             THEN Apply(tx_remove_file(fs, ext, part.path), "u_remove", "ComponentMissingFile")
             ELSE IF part.kind.variant = "Dir"
             THEN Apply(tx_remove_dir(fs, ext, part.path), "u_remove", "ComponentMissingDir")
             ELSE /\ pc' = "rollback"
                  /\ err' = "CorruptComponent"
                  /\ UNCHANGED <<fs, ext, changes>>
          /\ pset' = IF pc' = "u_remove" THEN seen(pset, part.path) ELSE pset
    /\ UNCHANGED <<partsU, temp, piter, cur, yielded>>

\* for empty_dir in pset: PruneSet::into_iter
UninstallIntoIter ==
    /\ UninstallStep("u_remove")
    /\ parts = <<>>
    /\ piter' = into_iter(pset)
    /\ yielded' = <<>>
    /\ pc' = "u_prune"
    /\ UNCHANGED <<partsU, fs, ext, changes, parts, temp, pset, cur, err>>

\* PruneIter::next
UninstallPruneNext ==
    /\ UninstallStep("u_prune")
    /\ \E r \in prune_next(piter, fs) :
          /\ piter' = r.it
          /\ cur' = r.item
          /\ yielded' = IF r.item.some THEN Append(yielded, r.item.val) ELSE yielded
          /\ pc' = IF r.item.some THEN "u_rmdir" ELSE "u_manifest"
    /\ UNCHANGED <<partsU, fs, ext, changes, parts, temp, pset, err>>

\* the loop body: tx.remove_dir(&self.name, empty_dir)
UninstallRemoveEmptyDir ==
    /\ UninstallStep("u_rmdir")
    /\ Apply(tx_remove_dir(fs, ext, cur.val), "u_prune", "ComponentMissingDir")
    /\ cur' = None
    /\ UNCHANGED <<partsU, parts, temp, pset, piter, yielded>>

\* variant: the manifest is left behind
UninstallRemoveManifest_Skip ==
    /\ UninstallStep("u_manifest")
    /\ pc' = "open"
    /\ UNCHANGED <<fs, ext, changes, err, partsU, parts, temp, pset, piter, cur, yielded>>

\* the last statement: tx.remove_file of the component's manifest
UninstallRemoveManifest ==
    /\ UninstallStep("u_manifest")
    /\ Apply(tx_remove_file(fs, ext, rel_component_manifest(name)), "open", "ComponentMissingFile")
    /\ UNCHANGED <<partsU, parts, temp, pset, piter, cur, yielded>>

\* ----------------------------------------------------------- registry reads
\* The registry is read while no transaction is applying changes; a result
\* describes the tree it was read from.
ReadStep ==
    /\ pc \in {"idle", "committed"}
    /\ UNCHANGED <<compVars, arg, procVars>>

Open ==
    /\ ReadStep
    /\ ret' = [op |-> "open", val |-> open(fs)]

List ==
    /\ ReadStep
    /\ ret' = [op |-> "list", val |-> list(fs)]

Find(n) ==
    /\ ReadStep
    /\ ret' = [op |-> "find", name |-> n, val |-> find(fs, n)]

Read ==
    \/ Open
    \/ List
    \/ \E n \in Names \cup {LegacyName} : Find(n)

\* ------------------------------------------------------------------ system
Builder ==
    \/ \E n \in Names : Add(n)
    \/ \E p \in FilePaths, s \in SrcFiles : copy_file(p, s)
    \/ \E p \in DirPaths, s \in SrcDirs : copy_dir(p, s)
    \/ \E p \in FilePaths, s \in SrcFiles : move_file(p, s)
    \/ \E p \in DirPaths, s \in SrcDirs : move_dir(p, s)

Finish ==
    \/ FinishAddFile
    \/ FinishWriteLines
    \/ FinishModifyComponents
    \/ FinishAppendName
    \/ WriteVersionModify
    \/ WriteVersionWrite
    \/ FinishReturn

Uninstall ==
    \/ \E n \in Names \cup {LegacyName} : UninstallFilter(n)
    \/ UninstallModifyComponents
    \/ UninstallRename
    \/ UninstallReadParts
    \/ UninstallRemovePart
    \/ UninstallIntoIter
    \/ UninstallPruneNext
    \/ UninstallRemoveEmptyDir
    \/ UninstallRemoveManifest

Next ==
    \/ Begin
    \/ Commit
    \/ Drop
    \/ RollbackStep
    \/ RollbackDone
    \/ DropCommitted
    \/ DropRolledBack
    \/ Builder
    \/ Finish
    \/ Uninstall
    \/ Read

Spec == Init /\ [][Next]_vars

\* the tree is well formed: every entry but the root lies in a directory
TreeOK == \A q \in DOMAIN fs : q # <<>> => is_directory(fs, Parent(q))

\* ----------------------------------------- uninstalling what others installed
\* Prefixes holding one component "c" installed by an earlier run or another
\* installer: its manifest lists up to MaxManifest of these parts in any
\* order, and files of other owners may lie next to them.
ManifestUniverse ==
    {ComponentPart(KindFile, <<"x">>), ComponentPart(KindFile, <<"u", "a">>),
     ComponentPart(KindDir, <<"u", "v">>), ComponentPart(KindFile, <<"u", "v", "a">>),
     ComponentPart(KindFile, <<"u", "w", "b">>)}
OtherFiles == {<<"u", "z">>, <<"u", "w", "z">>}

RECURSIVE SeqsOver(_, _)
SeqsOver(S, n) ==
    IF n = 0 THEN {<<>>}
    ELSE {<<>>} \cup UNION {{<<x>> \o q : q \in SeqsOver(S \ {x}, n - 1)} : x \in S}
Manifests == SeqsOver(ManifestUniverse, MaxManifest) \ {<<>>}

RECURSIVE PlaceAll(_, _, _)
PlaceAll(f, paths, t) ==
    IF paths = {} THEN f
    ELSE LET p == CHOOSE q \in paths : \A r \in paths : Len(q) <= Len(r)
         IN PlaceAll(IF path_exists(f, p) THEN f ELSE Place(f, p, t), paths \ {p}, t)

RECURSIVE ManifestText(_)
ManifestText(m) ==
    IF m = <<>> THEN <<>> ELSE encode(Head(m)) \o <<"\n">> \o ManifestText(Tail(m))

InstalledPrefix(m, others) ==
    LET meta == (<<>> :> DirNode) @@ (<<"lib">> :> DirNode) @@ (METADATA_ROOT :> DirNode) @@
                (rel_components_file :> FileNode(<<LegacyName, "\n">>)) @@
                (rel_version_file :> FileNode(INSTALLER_VERSION)) @@
                (rel_component_manifest(LegacyName) :> FileNode(ManifestText(m)))
        dirs == {m[i].path : i \in {j \in 1..Len(m) : m[j].kind.variant = "Dir"}}
        files == {m[i].path : i \in {j \in 1..Len(m) : m[j].kind.variant = "File"}}
    IN PlaceAll(PlaceAll(PlaceAll(meta, dirs, (<<>> :> DirNode)),
                         files, (<<>> :> FileNode(<<LegacyName>>))),
                others, (<<>> :> FileNode(<<"o">>)))
InstalledPrefixes == {InstalledPrefix(m, o) : m \in Manifests, o \in SUBSET OtherFiles}

InitUninstall ==
    /\ InitFrom(InstalledPrefixes)
    /\ arg = NoArg
    /\ ret = NoResult

NextUninstall ==
    \/ Begin
    \/ Commit
    \/ Drop
    \/ RollbackStep
    \/ RollbackDone
    \/ DropCommitted
    \/ DropRolledBack
    \/ UninstallFilter(LegacyName)
    \/ UninstallModifyComponents
    \/ UninstallRename
    \/ UninstallReadParts
    \/ UninstallRemovePart
    \/ UninstallIntoIter
    \/ UninstallPruneNext
    \/ UninstallRemoveEmptyDir
    \/ UninstallRemoveManifest

SpecUninstall == InitUninstall /\ [][NextUninstall]_vars

\* ------------------------------------------------------- the codec alone
\* encode and decode applied to bounded parts and lines, on a host whose main
\* separator is "/" and on one where it is "\\"
Hosts == {"/", "\\"}
Segments == {"share", "doc", INVALID}
LineTokens == {"file", "dir", "a", ":", "/", "\\"}

RECURSIVE SeqsUpTo(_, _)
SeqsUpTo(S, n) ==
    IF n = 0 THEN {<<>>}
    ELSE LET shorter == SeqsUpTo(S, n - 1)
         IN shorter \cup {Append(q, x) : q \in shorter, x \in S}
CodecParts == {ComponentPart(k, p) : k \in {KindFile, KindDir}, p \in SeqsUpTo(Segments, MaxPathLen)}
CodecLines == SeqsUpTo(LineTokens, MaxLineLen)
CodecArgs ==
    {[what |-> "part", host |-> h, part |-> x] : h \in Hosts, x \in CodecParts} \cup
    {[what |-> "line", host |-> h, line |-> l] : h \in Hosts, l \in CodecLines}

InitCodec ==
    /\ InitFrom({EmptyPrefix})
    /\ arg \in CodecArgs
    /\ ret = NoResult

CodecStep ==
    UNCHANGED <<compVars, arg, procVars>>

\* part.encode()
Encode ==
    /\ arg.what = "part"
    /\ ret = NoResult
    /\ ret' = [op |-> "encode", val |-> encodeOn(arg.host, arg.part)]
    /\ CodecStep

\* ComponentPart::decode(line)
Decode ==
    /\ arg.what = "line"
    /\ ret = NoResult
    /\ ret' = [op |-> "decode", val |-> decodeOn(arg.host, arg.line)]
    /\ CodecStep

\* ComponentPart::decode(&part.encode())
DecodeEncoded ==
    /\ ret.op = "encode"
    /\ ret' = [op |-> "roundtrip", line |-> ret.val, val |-> decodeOn(arg.host, ret.val)]
    /\ CodecStep

NextCodec ==
    \/ Encode
    \/ Decode
    \/ DecodeEncoded

SpecCodec == InitCodec /\ [][NextCodec]_vars

\* ------------------------------------------------- reading foreign metadata
\* Prefixes whose version file or components file was written by another
\* installer or by hand: any short text.
VersionTokens == {"3", "99", " ", "\n"}
ComponentsTokens == {"a", "c", "\n", "\r"}
VersionTexts == SeqsUpTo(VersionTokens, MaxVersionLen)
ComponentsTexts == SeqsUpTo(ComponentsTokens, MaxComponentsLen)
MetaPrefix == (<<>> :> DirNode) @@ (<<"lib">> :> DirNode) @@ (METADATA_ROOT :> DirNode)
ReadPrefixes ==
    {MetaPrefix, (rel_version_file :> DirNode) @@ MetaPrefix} \cup
    {(rel_version_file :> FileNode(v)) @@ MetaPrefix : v \in VersionTexts} \cup
    {(rel_components_file :> FileNode(c)) @@ MetaPrefix : c \in ComponentsTexts}

InitRead ==
    /\ InitFrom(ReadPrefixes)
    /\ arg = NoArg
    /\ ret = NoResult

NextRead ==
    \/ Open
    \/ List
    \/ \E n \in Names \cup {LegacyName} : Find(n)

SpecRead == InitRead /\ [][NextRead]_vars

\* ------------------------------------------------------ the current process
\* Threads call Process::run, and inside and outside of it Process::get; the
\* function given to run may return, panic or call run again.  A panic that
\* leaves run is caught at the bottom of its thread, which then goes on.
Top(t) == frames[t][Len(frames[t])]
InF(t) == frames[t] # <<>> /\ Top(t).at = "f"
CanCall(t) == ~aborted /\ (frames[t] = <<>> \/ InF(t))
CurrentRun(t) == IF InF(t) THEN Top(t).proc ELSE 0
Outcome(op, t, proc, val, panic) ==
    [op |-> op, thread |-> t, proc |-> proc, val |-> val, panic |-> panic]

\* clear_process: PROCESS.with(|p| p.replace(None)) on the panicking thread
clear_process(P, t) == [P EXCEPT ![t] = None]

\* panic! on thread t.  The hook that run has set, if any, runs before the
\* stack unwinds; RefCell::replace in clear_process panics when the cell is
\* borrowed, and a panic inside the panic hook aborts the process.
Panic(t, borrowed) ==
    IF HOOK_INSTALLED /\ borrowed
    THEN /\ aborted' = TRUE
         /\ UNCHANGED <<PROCESS, frames>>
    ELSE /\ PROCESS' = IF HOOK_INSTALLED THEN clear_process(PROCESS, t) ELSE PROCESS
         /\ frames' = [frames EXCEPT ![t] = <<>>]
         /\ UNCHANGED aborted

\* Process::run, HOOK_INSTALLED.call_once: the first call sets the hook
RunEnter(t, i) ==
    /\ CanCall(t)
    /\ runs < MaxRuns
    /\ runs' = runs + 1
    /\ HOOK_INSTALLED' = TRUE
    /\ hooks' = IF HOOK_INSTALLED THEN hooks ELSE hooks + 1
    /\ frames' = [frames EXCEPT ![t] = Append(@, [proc |-> i, at |-> "with"])]
    /\ ret' = Outcome("run", t, i, PROCESS[t], "none")
    /\ UNCHANGED <<PROCESS, aborted, compVars, arg>>

\* Process::run, PROCESS.with: panic if a process is set, the borrow of the
\* if-let still alive; otherwise set it and call f
RunSet(t) ==
    /\ ~aborted
    /\ frames[t] # <<>>
    /\ Top(t).at = "with"
    /\ IF PROCESS[t].some
       THEN /\ Panic(t, TRUE)
            /\ ret' = Outcome("with", t, Top(t).proc, PROCESS[t], "current process already set")
       ELSE /\ PROCESS' = [PROCESS EXCEPT ![t] = Some(Top(t).proc)]
            /\ frames' = [frames EXCEPT ![t][Len(frames[t])].at = "f"]
            /\ ret' = Outcome("with", t, Top(t).proc, PROCESS[t], "none")
            /\ UNCHANGED aborted
    /\ UNCHANGED <<HOOK_INSTALLED, hooks, runs, compVars, arg>>

\* Process::get
Get(t) ==
    /\ CanCall(t)
    /\ IF PROCESS[t].some
       THEN /\ ret' = Outcome("get", t, CurrentRun(t), PROCESS[t], "none")
            /\ UNCHANGED <<PROCESS, frames, aborted>>
       ELSE /\ Panic(t, FALSE)
            /\ ret' = Outcome("get", t, CurrentRun(t), PROCESS[t], "no process instance")
    /\ UNCHANGED <<HOOK_INSTALLED, hooks, runs, compVars, arg>>

\* let result = f(): the function panics
FPanic(t) ==
    /\ ~aborted
    /\ InF(t)
    /\ Panic(t, FALSE)
    /\ ret' = Outcome("f", t, Top(t).proc, PROCESS[t], "explicit panic")
    /\ UNCHANGED <<HOOK_INSTALLED, hooks, runs, compVars, arg>>

\* variant: the current process stays set when run returns
RunReturn_KeepSet(t) ==
    /\ ~aborted
    /\ InF(t)
    /\ frames' = [frames EXCEPT ![t] = SubSeq(@, 1, Len(@) - 1)]
    /\ ret' = Outcome("return", t, Top(t).proc, PROCESS[t], "none")
    /\ UNCHANGED <<PROCESS, HOOK_INSTALLED, hooks, aborted, runs, compVars, arg>>

\* the function returns: *p.borrow_mut() = None; result
RunReturn(t) ==
    /\ ~aborted
    /\ InF(t)
    /\ PROCESS' = [PROCESS EXCEPT ![t] = None]
    /\ frames' = [frames EXCEPT ![t] = SubSeq(@, 1, Len(@) - 1)]
    /\ ret' = Outcome("return", t, Top(t).proc, PROCESS[t], "none")
    /\ UNCHANGED <<HOOK_INSTALLED, hooks, aborted, runs, compVars, arg>>

InitProcess ==
    /\ InitFrom({EmptyPrefix})
    /\ arg = NoArg
    /\ ret = NoResult

NextProcess ==
    \E t \in Threads :
        \/ \E i \in ProcIds : RunEnter(t, i)
        \/ RunSet(t)
        \/ Get(t)
        \/ FPanic(t)
        \/ RunReturn(t)

SpecProcess == InitProcess /\ [][NextProcess]_vars

\* ---------------------------------------------------- the executable's name
\* src/bin/rustup-init.rs, run_rustup_inner, on a process definition given by
\* its environment variables, its arguments and whether the working directory
\* and the executable can be found.  A text is a sequence of tokens: "/", ".",
\* digits, signs and runs of other characters.
Arg0Tokens == {"rustup", "-init", "-setup", "-gc-", "cargo", ".", "exe", "/"}
CountTokens == {"0", "1", "2", "+", "-", "x"}
Digits == {"0", "1", "2"}

\* the segments of a text between its "/"
RECURSIVE Segs(_, _)
Segs(t, seg) ==
    IF t = <<>> THEN <<seg>>
    ELSE IF Head(t) = "/" THEN <<seg>> \o Segs(Tail(t), <<>>)
    ELSE Segs(Tail(t), Append(seg, Head(t)))
\* Path::components: empty segments and "." after the first place are dropped
RECURSIVE KeepComponents(_, _, _)
KeepComponents(raw, i, absolute) ==
    IF i > Len(raw) THEN <<>>
    ELSE (IF raw[i] # <<>> /\ (raw[i] # <<".">> \/ (i = 1 /\ ~absolute))
          THEN <<raw[i]>> ELSE <<>>) \o KeepComponents(raw, i + 1, absolute)
components(t) == KeepComponents(Segs(t, <<>>), 1, t # <<>> /\ Head(t) = "/")
\* Path::file_name: the last component when it is a normal one
file_name(t) ==
    LET c == components(t)
    IN IF c = <<>> THEN None
       ELSE IF c[Len(c)] \in {<<".">>, <<".", ".">>} THEN None
       ELSE Some(c[Len(c)])
\* Path::file_stem: the file name up to its last ".", the whole name when it
\* has no "." or only a leading one
file_stem(t) ==
    LET f == file_name(t)
    IN IF ~f.some THEN None
       ELSE LET dots == {i \in 1..Len(f.val) : f.val[i] = "."}
            IN IF dots = {} THEN f
               ELSE LET d == CHOOSE i \in dots : \A j \in dots : j <= i
                    IN IF d = 1 THEN f ELSE Some(SubSeq(f.val, 1, d - 1))
starts_with(t, pre) == Len(t) >= Len(pre) /\ SubSeq(t, 1, Len(pre)) = pre

\* variant: the first argument is taken before the variable
Process_name_Arg0First(p) ==
    LET arg0 == IF p.args # <<>> THEN Some(p.args[1]) ELSE p.force
    IN IF arg0.some THEN file_stem(arg0.val) ELSE None

\* Process::name
Process_name(p) ==
    LET arg0 == IF p.force.some THEN p.force
                ELSE IF p.args # <<>> THEN Some(p.args[1]) ELSE None
    IN IF arg0.some THEN file_stem(arg0.val) ELSE None

\* str::parse of an unsigned integer: digits after an optional "+"
DigitValue(c) == IF c = "0" THEN 0 ELSE IF c = "1" THEN 1 ELSE 2
RECURSIVE Decimal(_)
Decimal(ds) ==
    IF ds = <<>> THEN 0 ELSE 10 * Decimal(SubSeq(ds, 1, Len(ds) - 1)) + DigitValue(ds[Len(ds)])
parse(t) ==
    LET ds == IF t # <<>> /\ Head(t) = "+" THEN Tail(t) ELSE t
    IN IF ds = <<>> \/ \E i \in 1..Len(ds) : ds[i] \notin Digits THEN None
       ELSE Some(Decimal(ds))

Ok(v) == [ok |-> TRUE, val |-> v]
Err(e) == [ok |-> FALSE, val |-> e]

do_recursion_guard(p) ==
    LET parsed == IF p.count.some THEN parse(p.count.val) ELSE None
        recursion_count == IF parsed.some THEN parsed.val ELSE 0
    IN IF recursion_count > RUST_RECURSION_COUNT_MAX
       THEN Err("infinite recursion detected") ELSE Ok("guard")

\* the mode run_rustup_inner ends in, or its error
run_rustup_inner(p) ==
    IF ~do_recursion_guard(p).ok THEN do_recursion_guard(p)
    ELSE IF ~p.cwd THEN Err("current_dir")
    ELSE IF ~p.exe THEN Err("current_exe")
    ELSE LET n == Process_name(p)
         IN IF ~n.some THEN Err("NoExeName")
            ELSE IF n.val = <<"rustup">> THEN Ok("rustup_mode")
            ELSE IF \/ starts_with(n.val, <<"rustup", "-setup">>)
                    \/ starts_with(n.val, <<"rustup", "-init">>)
                 THEN Ok("setup_mode")
            ELSE IF starts_with(n.val, <<"rustup", "-gc-">>)
                 THEN (IF p.windows THEN Ok("complete_windows_uninstall")
                       ELSE Err("unreachable"))
            ELSE Ok("is_proxyable_tools, proxy_mode")

Definition(force, args, count, cwd, exe, windows) ==
    [what |-> "main", force |-> force, args |-> args, count |-> count,
     cwd |-> cwd, exe |-> exe, windows |-> windows]
Arg0Texts == SeqsUpTo(Arg0Tokens, MaxArg0Len)
CountTexts == SeqsUpTo(CountTokens, MaxCountLen)
ForcedNames == {<<"rustup">>, <<"cargo", ".", "exe">>, <<"/">>}
Definitions ==
    {Definition(None, <<a>>, None, TRUE, TRUE, w) : a \in Arg0Texts, w \in BOOLEAN} \cup
    {Definition(None, <<>>, None, TRUE, TRUE, FALSE)} \cup
    {Definition(Some(f), a, None, TRUE, TRUE, FALSE) :
        f \in ForcedNames, a \in {<<>>, <<<<"rustup", "-init">>>>, <<<<"cargo">>>>}} \cup
    {Definition(None, <<a>>, Some(c), TRUE, TRUE, FALSE) :
        a \in {<<"rustup">>, <<"cargo">>}, c \in CountTexts} \cup
    {Definition(None, <<<<"rustup">>>>, None, cwd, exe, FALSE) : cwd \in BOOLEAN, exe \in BOOLEAN}

InitMain ==
    /\ InitFrom({EmptyPrefix})
    /\ arg \in Definitions
    /\ ret = NoResult

Main ==
    /\ ret = NoResult
    /\ ret' = [op |-> "run_rustup_inner", name |-> Process_name(arg), val |-> run_rustup_inner(arg)]
    /\ UNCHANGED <<compVars, arg, procVars>>

NextMain == Main

SpecMain == InitMain /\ [][NextMain]_vars

\* ------------------------------------------------------------- properties
AllNames == Names \cup {LegacyName}
Range(q) == {q[i] : i \in 1..Len(q)}
ManifestParts(f, n) ==
    IF is_file(f, rel_component_manifest(n)) /\ component_parts(f, n).some
    THEN Range(component_parts(f, n).val) ELSE {}
HasUnknownPart(f, n) == \E part \in ManifestParts(f, n) : part.kind.variant = "Unknown"
IsEmptyDir(f, d) ==
    /\ d \in DOMAIN f
    /\ f[d].kind = "dir"
    /\ \A q \in DOMAIN f : ~IsStrictAncestor(d, q)

\* C1: when a transaction has ended without commit, the files and directories
\* under the prefix are exactly those of the moment it began, and every source
\* that was only copied from is still there.
C1_RollbackIdentity ==
    pc = "rolledback" =>
        /\ fs = fs0
        /\ \A s \in copied : s \in ext0 /\ s \notin moved => s \in ext

\* C2: once the installs and uninstalls of a transaction are committed, a name
\* is a line of the components file if and only if manifest-<name> exists.
C2_RegistryCoherence ==
    pc \in {"committed", "idle"} =>
        \A n \in AllNames :
            (<<n>> \in Listed(fs)) <=> is_file(fs, rel_component_manifest(n))
C2_Witness ==
    /\ pc = "committed"
    /\ \E n \in Names : <<n>> \in Listed(fs) /\ is_file(fs, rel_component_manifest(n))
    /\ \E n \in Names : <<n>> \notin Listed(fs) /\ ~is_file(fs, rel_component_manifest(n))
    /\ ops = MaxOps

\* C3: uninstalling a component whose manifest has a part of unknown kind ends
\* with CorruptComponent and never completes; once the transaction is rolled
\* back the components file has the content it had before and every part of
\* the component is on disk as before.
C3_CorruptUninstall ==
    /\ (fsU # NoTree /\ HasUnknownPart(fsU, name)) =>
          /\ pc \notin {"u_prune", "u_rmdir", "u_manifest", "open", "committed"}
          /\ (pc \in {"rollback", "rolledback"} => err = "CorruptComponent")
    /\ (pc = "rolledback" /\ err = "CorruptComponent") =>
          /\ is_file(fs, rel_components_file)
          /\ fs[rel_components_file] = fs0[rel_components_file]
          /\ \A part \in ManifestParts(fs0, name) :
                /\ path_exists(fs, part.path)
                /\ Subtree(fs, part.path) = Subtree(fs0, part.path)
C3_Witness ==
    /\ pc = "rolledback"
    /\ err = "CorruptComponent"
    /\ HasUnknownPart(fs0, name)
    /\ \E part \in ManifestParts(fs0, name) : part.kind.variant = "File"

\* C4: after component A is uninstalled and the transaction committed, every
\* directory above one of A's parts that held an entry which is neither part
\* of A nor a directory leading to a part of A is still there, with that entry
\* unchanged (the registry's own files for A aside).
PartPaths == {partsU[i].path : i \in 1..Len(partsU)}
Foreign(e) ==
    /\ e \in DOMAIN fsU
    /\ \A p \in PartPaths : ~IsAncestorOrSelf(p, e) /\ ~IsStrictAncestor(e, p)
    /\ e \notin {rel_components_file, rel_component_manifest(name)}
AboveParts(d) == \E p \in PartPaths : IsStrictAncestor(d, p)
Uninstalled == pc = "committed" /\ fsU # NoTree
C4_SharedDirsSurvive ==
    Uninstalled =>
        \A d \in DOMAIN fsU, e \in DOMAIN fsU :
            (AboveParts(d) /\ IsStrictAncestor(d, e) /\ Foreign(e)) =>
                /\ d \in DOMAIN fs
                /\ fs[d].kind = "dir"
                /\ e \in DOMAIN fs
                /\ fs[e] = fsU[e]
C4_Witness ==
    /\ Uninstalled
    /\ \E d \in DOMAIN fsU, e \in DOMAIN fsU :
          d # <<>> /\ AboveParts(d) /\ IsStrictAncestor(d, e) /\ Foreign(e)

\* C5: a directory the prune enumeration has just yielded exists, is a
\* directory and has no entry; non-empty and missing directories are not
\* yielded.
C5_PruneSafety ==
    pc = "u_rmdir" => cur.some /\ IsEmptyDir(fs, cur.val)
C5_Witness ==
    /\ pc = "u_rmdir"
    /\ cur.some
    /\ \E d \in pset.dirs : ~path_exists(fs, d)
    /\ \E d \in pset.ancestors : path_exists(fs, d) /\ ~IsEmptyDir(fs, d)

\* C6: within one prune enumeration no directory is yielded twice.
C6_NoDoubleYield ==
    \A i, j \in 1..Len(yielded) : i # j => yielded[i] # yielded[j]
C6_Witness ==
    /\ pc = "u_manifest"
    /\ \E d \in Range(yielded) :
          Cardinality({c \in pset.dirs : IsStrictAncestor(d, c)}) >= 2

\* C7: the prune enumeration never yields the prefix root (the empty
\* relative path).
C7_NeverYieldsRoot ==
    \A i \in 1..Len(yielded) : yielded[i] # <<>>

\* C8: at the start of a prune enumeration, the prune set is the one every
\* order of the seen calls produces, and every iteration order of the
\* candidates ends with the same set of directories yielded and removed.
RECURSIVE SeenAll(_, _)
SeenAll(ps, q) == IF q = <<>> THEN ps ELSE SeenAll(seen(ps, Head(q)), Tail(q))
Orders(S) == {q \in SeqsOver(S, Cardinality(S)) : Len(q) = Cardinality(S)}
RECURSIVE PruneOutcomes(_, _)
PruneOutcomes(it, f) ==
    UNION {IF r.item.some
           THEN {{r.item.val} \cup Y : Y \in PruneOutcomes(r.it, Without(f, r.item.val))}
           ELSE {{}} : r \in prune_next(it, f)}
PruneStart == pc = "u_prune" /\ yielded = <<>> /\ ~piter.path_buf.some /\ piter.iter = pset.dirs
C8_OrderIndependent ==
    PruneStart =>
        /\ \A q \in Orders(PartPaths) : SeenAll(EmptyPruneSet, q) = pset
        /\ Cardinality(PruneOutcomes(piter, fs)) = 1
C8_Witness ==
    /\ PruneStart
    /\ Cardinality(PartPaths) >= 3
    /\ Cardinality(pset.dirs) >= 2
    /\ \E Y \in PruneOutcomes(piter, fs) : Cardinality(Y) >= 3

\* C9: after a committed uninstall no directory below the prefix root that
\* lies above a removed part is left without an entry.
C9_PruneComplete ==
    Uninstalled => \A d \in DOMAIN fs : ~(d # <<>> /\ AboveParts(d) /\ IsEmptyDir(fs, d))

\* C10: the name is appended to the components file only when every part of
\* the component is in place and manifest-<name> has been created, the version
\* file is written only after the name is appended, and when finish returns
\* manifest-<name> holds the encoded part lines.
FinishBeforeAppend == {"f_write", "f_modify", "f_append"}
FinishAfterAppend == {"f_vmodify", "f_vwrite", "f_return"}
Installed == pc = "open" /\ name \in Names /\ fsU = NoTree
EncodedParts == [i \in 1..Len(parts) |-> encode(parts[i])]
ManifestLines == lines(fs[rel_component_manifest(name)].data)
VersionText(f) == IF is_file(f, rel_version_file) THEN f[rel_version_file].data ELSE <<"absent">>
C10_InstallOrdering ==
    /\ [](pc \in FinishBeforeAppend =>
            <<name>> \notin Listed(fs) /\ is_file(fs, rel_component_manifest(name)))
    /\ [](pc \in FinishAfterAppend =>
            /\ <<name>> \in Listed(fs)
            /\ is_file(fs, rel_component_manifest(name))
            /\ \A i \in 1..Len(parts) : path_exists(fs, parts[i].path))
    /\ [][(pc \in {"building"} \cup FinishBeforeAppend \cup FinishAfterAppend
             /\ VersionText(fs') # VersionText(fs)) => <<name>> \in Listed(fs)]_vars
    /\ [](Installed => ManifestLines = EncodedParts)
C10_Witness ==
    /\ Installed
    /\ Len(parts) = MaxParts
    /\ <<name>> \in Listed(fs)
\* C10 as first stated: once the name is in the components file, manifest-<name>
\* already holds every encoded part line.
C10_ManifestWrittenFirst ==
    pc \in FinishAfterAppend =>
        /\ is_file(fs, rel_component_manifest(name))
        /\ ManifestLines = EncodedParts

\* C11: when a transaction is committed right after finish has returned for
\* name N with parts p1..pk, manifest-N is the k lines "<kind>:<path>" of the
\* parts in call order with "/" between the segments, the components file is
\* its lines from before finish followed by N, and the version file holds the
\* supported installer version.
RECURSIVE JoinLines(_)
JoinLines(ls) == IF ls = <<>> THEN <<>> ELSE Head(ls) \o <<"\n">> \o JoinLines(Tail(ls))
ExpectedLine(part) ==
    <<IF part.kind.variant = "File" THEN "file" ELSE "dir", ":">> \o
    PathToStr("/", part.path)
ComponentsEntries == {i \in 1..Len(changes) : changes[i].path = rel_components_file}
PrevComponentsLines ==
    LET i == CHOOSE j \in ComponentsEntries : \A k \in ComponentsEntries : k <= j
    IN IF changes[i].has THEN lines(changes[i].backup[<<>>].data) ELSE <<>>
C11_InstallCommitted ==
    [][(Installed /\ pc' = "committed") =>
          /\ is_file(fs', rel_component_manifest(name))
          /\ fs'[rel_component_manifest(name)].data =
                JoinLines([i \in 1..Len(parts) |-> ExpectedLine(parts[i])])
          /\ \A i \in 1..Len(parts) : path_exists(fs', parts[i].path)
          /\ is_file(fs', rel_components_file)
          /\ lines(fs'[rel_components_file].data) = PrevComponentsLines \o <<<<name>>>>
          /\ is_file(fs', rel_version_file)
          /\ fs'[rel_version_file].data = INSTALLER_VERSION]_vars
C11_Witness ==
    /\ pc = "committed"
    /\ name \in Names
    /\ fsU = NoTree
    /\ Len(parts) = MaxParts
    /\ Len(list(fs)) >= 2
    /\ list(fs)[Len(list(fs))] = <<name>>

\* C12 as first stated: decoding the encoding of a file or dir part gives the
\* part back, whatever its relative path.
C12_RoundTripAnyPath ==
    ret.op = "roundtrip" => ret.val.some /\ ret.val.val = arg.part

\* C12: decoding the encoding of a file or dir part whose relative path is
\* valid Unicode gives a part of the same kind and the same path, never none.
ValidUnicode(p) == \A i \in 1..Len(p) : p[i] # INVALID
C12_RoundTrip ==
    (ret.op = "roundtrip" /\ ValidUnicode(arg.part.path)) =>
        /\ ret.val.some
        /\ ret.val.val.kind = arg.part.kind
        /\ ret.val.val.path = arg.part.path
C12_Witness ==
    /\ ret.op = "roundtrip"
    /\ arg.host = "\\"
    /\ arg.part.kind = KindDir
    /\ Len(arg.part.path) = MaxPathLen
    /\ ValidUnicode(arg.part.path)
    /\ ret.val.some

\* C13: decode gives none exactly for a line without ':'; otherwise the kind
\* is file for the token "file", dir for "dir" and unknown(token) for any
\* other text before the first ':', and the path is made of everything after
\* the first ':', later ':' included.
HasColon(l) == \E i \in 1..Len(l) : l[i] = ":"
FirstColon(l) == CHOOSE j \in 1..Len(l) : l[j] = ":" /\ \A k \in 1..(j - 1) : l[k] # ":"
RECURSIVE ConcatStr(_)
ConcatStr(q) == IF q = <<>> THEN "" ELSE Head(q) \o ConcatStr(Tail(q))
BetweenSeparators(host, t) ==
    LET keep(x) == x # "/" /\ x # host
    IN SelectSeq(t, keep)
C13_Decode ==
    ret.op = "decode" =>
        /\ ret.val.some <=> HasColon(arg.line)
        /\ HasColon(arg.line) =>
              LET pos == FirstColon(arg.line)
                  token == SubSeq(arg.line, 1, pos - 1)
                  rest == SubSeq(arg.line, pos + 1, Len(arg.line))
                  part == ret.val.val
              IN /\ token = <<"file">> => part.kind.variant = "File"
                 /\ token = <<"dir">> => part.kind.variant = "Dir"
                 /\ token \notin {<<"file">>, <<"dir">>} =>
                        part.kind.variant = "Unknown" /\ part.kind.s = token
                 /\ ConcatStr(part.path) = ConcatStr(BetweenSeparators(arg.host, rest))
C13_Witness ==
    /\ ret.op = "decode"
    /\ arg.line = <<"file", ":", "a", ":", "a">>
    /\ ret.val.some
    /\ ret.val.val = ComponentPart(KindFile, <<"a:a">>)

\* C14: encode writes "/" between the segments of the path whatever the host
\* separator is, and decode takes every "/" of the payload, like the host
\* separator, as the end of a segment.
Lossy(p) == [i \in 1..Len(p) |-> IF p[i] = INVALID THEN REPLACEMENT_CHARACTER ELSE p[i]]
SegmentStarts(host, t) ==
    {i \in 1..Len(t) : /\ t[i] # "/" /\ t[i] # host
                       /\ (i = 1 \/ t[i - 1] = "/" \/ t[i - 1] = host)}
C14_Separators ==
    /\ ret.op = "encode" =>
          LET payload == SubSeq(ret.val, 3, Len(ret.val))
              path == arg.part.path
          IN /\ ret.val[1] = (IF arg.part.kind = KindFile THEN "file" ELSE "dir")
             /\ ret.val[2] = ":"
             /\ Len(payload) = (IF path = <<>> THEN 0 ELSE 2 * Len(path) - 1)
             /\ \A i \in 1..Len(payload) :
                    payload[i] = (IF i % 2 = 0 THEN "/" ELSE Lossy(path)[(i + 1) \div 2])
    /\ (ret.op = "decode" /\ ret.val.some) =>
          LET rest == SubSeq(arg.line, FirstColon(arg.line) + 1, Len(arg.line))
          IN /\ Len(ret.val.val.path) = Cardinality(SegmentStarts(arg.host, rest))
             /\ arg.line = <<"dir", ":", "a", "/", "a">> =>
                    ret.val.val = ComponentPart(KindDir, <<"a", "a">>)
C14_Witness ==
    /\ ret.op = "encode"
    /\ arg.host = "\\"
    /\ arg.part = ComponentPart(KindDir, <<"share", "doc", "share">>)
    /\ ret.val = <<"dir", ":", "share", "/", "doc", "/", "share">>

\* C15: open succeeds when there is no version file, succeeds when the
\* content of the version file is the supported installer version between
\* any whitespace, fails with the unsupported-version error for every other
\* content, and leaves every file as it is.
IsVersionInWhitespace(t) ==
    \E i \in 1..Len(t), j \in 1..Len(t) :
        /\ SubSeq(t, i, j) = INSTALLER_VERSION
        /\ \A k \in (1..(i - 1)) \cup ((j + 1)..Len(t)) : t[k] \in {" ", "\t", "\n", "\r"}
C15_Open ==
    /\ [](ret.op = "open" =>
            /\ ret.val.ok <=>
                  \/ rel_version_file \notin DOMAIN fs
                  \/ fs[rel_version_file].kind # "file"
                  \/ IsVersionInWhitespace(fs[rel_version_file].data)
            /\ ~ret.val.ok => ret.val.err = "unsupported metadata version")
    /\ [][ret'.op = "open" => fs' = fs]_vars
C15_Witness ==
    /\ ret.op = "open"
    /\ is_file(fs, rel_version_file)
    /\ fs[rel_version_file].data = <<" ", "3", "\n">>
    /\ ret.val.ok

\* C16: list gives one handle per line of the components file in file order,
\* the empty list when the file is absent or empty, so also after the only
\* installed component was uninstalled; find(name) gives a handle exactly
\* when some line is the name.
HasLine(t, n) ==
    \E k \in 1..(Len(t) - 1) :
        t[k] = n /\ t[k + 1] = "\n" /\ (k = 1 \/ t[k - 1] = "\n")
LastUninstalled ==
    /\ pc = "committed"
    /\ fsU # NoTree
    /\ rel_components_file \in DOMAIN fsU
    /\ fsU[rel_components_file].data = <<name, "\n">>
C16_ListFind ==
    /\ ret.op = "list" =>
          /\ rel_components_file \notin DOMAIN fs => ret.val = <<>>
          /\ rel_components_file \in DOMAIN fs =>
                JoinLines(ret.val) = fs[rel_components_file].data
          /\ LastUninstalled => ret.val = <<>>
    /\ ret.op = "find" =>
          /\ ret.val.some <=>
                /\ rel_components_file \in DOMAIN fs
                /\ HasLine(fs[rel_components_file].data, ret.name)
          /\ ret.val.some => ret.val.val = <<ret.name>>
C16_Witness ==
    /\ LastUninstalled
    /\ ret.op = "list"
    /\ ret.val = <<>>
    /\ rel_components_file \in DOMAIN fs
    /\ fs[rel_components_file].data = <<>>

\* C17: when the components file is names, one per line, followed by empty
\* lines, list gives exactly the handles of the names and no handle whose
\* name is empty.
NamesThenBlankLines(t) ==
    \E k \in 0..Len(t) :
        /\ \A i \in (k + 1)..Len(t) : t[i] = "\n"
        /\ \A i \in 1..k : (t[i] = "\n") <=> (i % 2 = 0)
        /\ \A i \in 1..k : t[i] # "\r"
        /\ k % 2 = 0
NameTokens(t) ==
    LET isName(x) == x # "\n"
    IN SelectSeq(t, isName)
C17_TrailingBlankIgnored ==
    (/\ ret.op = "list"
     /\ is_file(fs, rel_components_file)
     /\ NamesThenBlankLines(fs[rel_components_file].data)) =>
        /\ \A i \in 1..Len(ret.val) : ret.val[i] # <<>>
        /\ Len(ret.val) = Len(NameTokens(fs[rel_components_file].data))

\* C18: a transaction verb that succeeds appends exactly one change-log entry,
\* of the variant and path of the verb; a verb that fails appends nothing and
\* leaves the tree as it is; so finish for a name whose manifest exists fails
\* at add_file, before the components file and the version file are touched.
VerbPcs == {"building", "f_modify", "f_vmodify", "u_modify", "u_remove", "u_rmdir", "u_manifest"}
Appended ==
    IF changes' = <<>> THEN [type |-> "none", path |-> <<>>]
    ELSE changes'[Len(changes')]
LastPart == parts[Len(parts)]
C19_RollbackLIFO ==
    /\ [][(pc # "rollback" /\ changes' # changes /\ changes' # <<>>) =>
            /\ Len(changes') > Len(changes)
            /\ SubSeq(changes', 1, Len(changes)) = changes]_vars
    /\ [][(pc = "rollback" /\ pc' = "rollback") =>
            /\ changes # <<>>
            /\ changes' = SubSeq(changes, 1, Len(changes) - 1)
            /\ fs' = roll_back(fs, changes[Len(changes)])]_vars
    /\ [][(pc = "rollback" /\ pc' # "rollback") => changes = <<>> /\ fs' = fs]_vars
C19_Witness ==
    /\ pc = "rollback"
    /\ err = "CorruptComponent"
    /\ Len(changes) = 1
    /\ changes[1].path = rel_components_file
    /\ is_file(fs, <<"share", "doc", "c">>)
    /\ <<LegacyName>> \notin Listed(fs)

\* C20: a transaction is open from its creation until it is committed or
\* rolled back and it is one of the two when it goes out of scope; after
\* commit the change log with its backups is empty; a committed transaction
\* going out of scope changes nothing, an uncommitted one is rolled back.
C20_Lifecycle ==
    /\ [](txState \in {"none", "open", "committed", "rolledback"})
    /\ [](txState = "open" <=> pc \notin {"idle", "committed", "rolledback"})
    /\ [](pc = "committed" => txState = "committed" /\ changes = <<>>)
    /\ [](pc = "rolledback" => txState = "rolledback" /\ changes = <<>>)
    /\ [][(pc # "idle" /\ pc' = "idle") =>
            /\ txState \in {"committed", "rolledback"}
            /\ fs' = fs
            /\ ext' = ext]_vars
    /\ [][(txState = "open" /\ txState' # "open") =>
            \/ pc = "open" /\ txState' = "committed" /\ fs' = fs
            \/ pc = "rollback" /\ txState' = "rolledback" /\ changes = <<>>]_vars
    /\ [][txState = "committed" => txState' \in {"committed", "open"}]_vars
C20_Witness ==
    /\ pc = "committed"
    /\ txState = "committed"
    /\ changes = <<>>
    /\ ops = MaxOps
    /\ fs # fs0

\* C21: modify_file on a path where nothing exists succeeds, changes no file
\* and records ModifiedFile without a backup; the reversal of such an entry
\* leaves no file at the path; so when a transaction that began without a
\* components file or a version file is rolled back, finish having run in it,
\* neither file is there.
ModifyTarget == IF pc = "f_vmodify" THEN rel_version_file ELSE rel_components_file
C21_ModifyAbsent ==
    /\ [][(/\ pc \in {"f_modify", "f_vmodify", "u_modify"}
           /\ pc' \in {"f_append", "f_vwrite", "u_rename"}
           /\ ~path_exists(fs, ModifyTarget)) =>
            /\ Len(changes') = Len(changes) + 1
            /\ Appended = Entry("ModifiedFile", ModifyTarget, FALSE, NoTree)
            /\ fs' = fs]_vars
    /\ [][(/\ pc = "rollback"
           /\ changes # <<>>
           /\ changes[Len(changes)].type = "ModifiedFile"
           /\ ~changes[Len(changes)].has) =>
            ~is_file(fs', changes[Len(changes)].path)]_vars
    /\ [](pc = "rolledback" =>
            /\ ~path_exists(fs0, rel_components_file) => ~path_exists(fs, rel_components_file)
            /\ ~path_exists(fs0, rel_version_file) => ~path_exists(fs, rel_version_file))
C21_Witness ==
    /\ pc = "rolledback"
    /\ fs0 = EmptyPrefix
    /\ err = "none"
    /\ name \in Names
    /\ Len(parts) = MaxParts
    /\ is_directory(fs, METADATA_ROOT)
    /\ ~path_exists(fs, rel_components_file)
    /\ ~path_exists(fs, rel_version_file)

\* C25: while a component whose manifest has a part of unknown kind is being
\* uninstalled, no remove_file or remove_dir is issued for any of its parts:
\* the loop over the parts changes neither the change log nor the tree.
C25_NoPartialUninstall ==
    [][(pc = "u_remove" /\ fsU # NoTree /\ HasUnknownPart(fsU, name)) =>
          /\ changes' = changes
          /\ fs' = fs]_vars

\* C26: at every step inside finish and inside uninstall, each line of the
\* components file is a name whose manifest-<name> exists: finish appends the
\* name when the manifest is already there, uninstall takes the name out of
\* the components file before it removes any part and removes the manifest
\* with its last step.
FinishPcs == {"f_write", "f_modify", "f_append", "f_vmodify", "f_vwrite", "f_return"}
UninstallPcs == {"u_modify", "u_rename", "u_parts", "u_remove", "u_prune", "u_rmdir", "u_manifest"}
C26_ListedHasManifest ==
    /\ [](pc \in FinishPcs \cup UninstallPcs =>
            \A l \in Listed(fs) : Len(l) = 1 /\ is_file(fs, rel_component_manifest(l[1])))
    /\ [][(pc = "f_append" /\ pc' # pc) =>
            /\ is_file(fs, rel_component_manifest(name))
            /\ <<name>> \in Listed(fs')]_vars
    /\ [](pc \in UninstallPcs \ {"u_modify", "u_rename"} => <<name>> \notin Listed(fs))
    /\ [][(pc \in UninstallPcs /\ ~is_file(fs', rel_component_manifest(name))
             /\ is_file(fs, rel_component_manifest(name)) /\ pc' # "rollback") =>
            \/ pc = "u_manifest" /\ pc' = "open"
            \/ pc = "u_remove" /\ ~is_file(fs', rel_components_file)]_vars
C26_Witness ==
    /\ pc = "u_remove"
    /\ Len(parts) < Len(partsU)
    /\ Listed(fs) # {}
    /\ <<name>> \notin Listed(fs)
    /\ is_file(fs, rel_component_manifest(name))

\* C27: uninstall first rewrites the components file without the name, then
\* removes the parts from the last manifest line to the first, a file part by
\* remove_file and a dir part by remove_dir, then removes the pruned empty
\* directories, and removes manifest-<name> last: the change log of a finished
\* uninstall is exactly these entries in this order.
RemovedEntryType(part) == IF part.kind.variant = "File" THEN "RemovedFile" ELSE "RemovedDir"
UninstallLog(k, y) ==
    <<[type |-> "ModifiedFile", path |-> rel_components_file]>> \o
    [i \in 1..k |-> [type |-> RemovedEntryType(partsU[Len(partsU) + 1 - i]),
                     path |-> partsU[Len(partsU) + 1 - i].path]] \o
    [i \in 1..y |-> [type |-> "RemovedDir", path |-> yielded[i]]]
LogShape == [i \in 1..Len(changes) |-> [type |-> changes[i].type, path |-> changes[i].path]]
ManifestEntry == [type |-> "RemovedFile", path |-> rel_component_manifest(name)]
C27_UninstallOrder ==
    /\ pc \in {"u_parts", "u_remove"} =>
          /\ parts = SubSeq(partsU, 1, Len(parts))
          /\ LogShape = UninstallLog(Len(partsU) - Len(parts), 0)
          /\ is_file(fs, rel_component_manifest(name))
    /\ pc \in {"u_prune", "u_manifest"} =>
          /\ LogShape = UninstallLog(Len(partsU), Len(yielded))
          /\ is_file(fs, rel_component_manifest(name))
    /\ pc = "u_rmdir" =>
          /\ LogShape = UninstallLog(Len(partsU), Len(yielded) - 1)
          /\ is_file(fs, rel_component_manifest(name))
    /\ (pc = "open" /\ fsU # NoTree) =>
          /\ LogShape = UninstallLog(Len(partsU), Len(yielded)) \o <<ManifestEntry>>
          /\ ~path_exists(fs, rel_component_manifest(name))
          /\ <<name>> \notin Listed(fs)
C27_Witness ==
    /\ pc = "open"
    /\ fsU # NoTree
    /\ Len(partsU) = MaxManifest
    /\ \E i \in 1..Len(partsU) : partsU[i].kind = KindDir
    /\ Len(yielded) >= 2

\* C28: when uninstall of component N has succeeded, the components file is
\* its lines from before the uninstall without those equal to N, in the same
\* order, and for every other listed component the manifest, every file and
\* directory named in it and what its directories hold, N's own parts aside,
\* are as they were before.
RECURSIVE OtherLines(_, _)
OtherLines(ls, n) ==
    IF ls = <<>> THEN <<>>
    ELSE (IF Head(ls) = <<n>> THEN <<>> ELSE <<Head(ls)>>) \o OtherLines(Tail(ls), n)
C28_UninstallFrame ==
    (pc = "open" /\ fsU # NoTree) =>
        /\ list(fs) = OtherLines(list(fsU), name)
        /\ \A n \in AllNames \ {name} :
              <<n>> \in Listed(fsU) =>
                 /\ is_file(fs, rel_component_manifest(n))
                 /\ fs[rel_component_manifest(n)] = fsU[rel_component_manifest(n)]
                 /\ \A part \in ManifestParts(fsU, n) :
                       \A q \in Under(fsU, part.path) :
                          (q = part.path \/ \A pn \in PartPaths : ~IsAncestorOrSelf(pn, q)) =>
                             /\ q \in DOMAIN fs
                             /\ fs[q] = fsU[q]

\* C29: seen(p) for a path p of one segment, whose containing directory is the
\* empty path, changes neither the candidates nor the ancestors, and the empty
\* path is in neither set.
C29_SeenSingleSegment ==
    /\ [](<<>> \notin pset.dirs \cup pset.ancestors)
    /\ [][(pc = "u_remove" /\ pc' = "u_remove" /\ parts # <<>>
             /\ Len(parts[Len(parts)].path) = 1) => pset' = pset]_vars

\* C30: after any number of seen calls no candidate is a strict ancestor of
\* another candidate, no path is both candidate and ancestor, every ancestor
\* is a strict ancestor of some candidate and every strict ancestor of a
\* candidate, the empty path aside, is among the ancestors.
C30_PruneSetShape ==
    /\ \A c \in pset.dirs, d \in pset.dirs : ~IsStrictAncestor(c, d)
    /\ pset.dirs \cap pset.ancestors = {}
    /\ \A a \in pset.ancestors : \E c \in pset.dirs : IsStrictAncestor(a, c)
    /\ \A c \in pset.dirs : \A a \in Prefixes(c) \ {<<>>, c} : a \in pset.ancestors

\* C22: Process::get called inside the function given to run returns the
\* process that was passed to that run; get panics with "no process instance"
\* when the thread has no current process; when run returns normally the
\* current process of its thread is unset.
C22_GetInsideRun ==
    /\ []((ret.op = "get" /\ ret.proc # 0) => ret.panic = "none" /\ ret.val = Some(ret.proc))
    /\ [](ret.op = "get" => (ret.panic = "no process instance" <=> ~ret.val.some))
    /\ [](ret.op = "get" => (ret.panic = "none" <=> ret.val.some))
    /\ [][\A t \in Threads :
            (ret'.op = "return" /\ ret'.thread = t /\ Len(frames'[t]) < Len(frames[t])) =>
                /\ ~PROCESS'[t].some
                /\ \A u \in Threads \ {t} : PROCESS'[u] = PROCESS[u]]_vars
C22_Witness ==
    /\ ret.op = "get"
    /\ ret.thread = "t1"
    /\ ret.val = Some(2)
    /\ InF("t1")
    /\ PROCESS["t2"] = Some(1)

\* C23: when the function given to run panics, the panic hook unsets the
\* current process of that thread and of no other thread, and the thread goes
\* on; the hook is set at most once; a run that is not called from inside
\* another run never finds a current process set.
C23_PanicClears ==
    /\ [](hooks <= 1)
    /\ [][\A t \in Threads :
            (/\ frames[t] # <<>>
             /\ ret'.op \in {"with", "get", "f"}
             /\ ret'.thread = t
             /\ ret'.panic # "none") =>
                /\ ~aborted'
                /\ ~PROCESS'[t].some
                /\ frames'[t] = <<>>
                /\ \A u \in Threads \ {t} : PROCESS'[u] = PROCESS[u]]_vars
    /\ [][\A t \in Threads :
            (ret'.op = "with" /\ ret'.thread = t /\ Len(frames[t]) = 1) =>
                ret'.panic = "none"]_vars

\* C24 as first stated: the mode follows from the file stem of the name, which
\* is RUSTUP_FORCE_ARG0 when set and else the first argument: "rustup" is the
\* rustup CLI, a stem beginning with "rustup-setup" or "rustup-init" is setup
\* mode, every other stem is proxy mode after the proxyable-tool check, no
\* stem is NoExeName; before that the recursion guard has accepted
\* RUST_RECURSION_COUNT, absent and unparsable counting as 0, and a count
\* above the maximum is an error.  Read for a process whose working
\* directory and executable are found.
ChosenArg0 ==
    IF arg.force.some THEN arg.force
    ELSE IF arg.args # <<>> THEN Some(arg.args[1]) ELSE None
ChosenStem == IF ChosenArg0.some THEN file_stem(ChosenArg0.val) ELSE None
IsNumber(t) == t # <<>> /\ \A i \in 1..Len(t) : t[i] \in Digits
CountValue ==
    IF arg.count.some /\ IsNumber(arg.count.val) THEN Decimal(arg.count.val)
    ELSE IF arg.count.some /\ Len(arg.count.val) > 1 /\ Head(arg.count.val) = "+"
            /\ IsNumber(Tail(arg.count.val))
    THEN Decimal(Tail(arg.count.val))
    ELSE 0
IsSetupStem(n) == starts_with(n, <<"rustup", "-setup">>) \/ starts_with(n, <<"rustup", "-init">>)
C24_ModeByName ==
    ret.op = "run_rustup_inner" =>
        /\ ret.name = ChosenStem
        /\ CountValue > RUST_RECURSION_COUNT_MAX <=>
              ret.val = Err("infinite recursion detected")
        /\ (CountValue <= RUST_RECURSION_COUNT_MAX /\ arg.cwd /\ arg.exe) =>
              /\ ~ChosenStem.some => ret.val = Err("NoExeName")
              /\ ChosenStem.some =>
                    /\ ChosenStem.val = <<"rustup">> => ret.val = Ok("rustup_mode")
                    /\ IsSetupStem(ChosenStem.val) => ret.val = Ok("setup_mode")
                    /\ (ChosenStem.val # <<"rustup">> /\ ~IsSetupStem(ChosenStem.val)) =>
                          ret.val = Ok("is_proxyable_tools, proxy_mode")

\* C24: as above when the working directory and the executable are found,
\* except that a stem beginning with "rustup-gc-" is neither of the three
\* modes: it completes the uninstall on Windows and is unreachable code
\* elsewhere; proxy mode is for every stem that is not "rustup" and begins
\* with none of "rustup-setup", "rustup-init", "rustup-gc-".
IsGcStem(n) == starts_with(n, <<"rustup", "-gc-">>)
C24_ModeByNameGc ==
    ret.op = "run_rustup_inner" =>
        /\ ret.name = ChosenStem
        /\ CountValue > RUST_RECURSION_COUNT_MAX <=>
              ret.val = Err("infinite recursion detected")
        /\ (CountValue <= RUST_RECURSION_COUNT_MAX /\ ~(arg.cwd /\ arg.exe)) => ~ret.val.ok
        /\ (CountValue <= RUST_RECURSION_COUNT_MAX /\ arg.cwd /\ arg.exe) =>
              /\ ~ChosenStem.some => ret.val = Err("NoExeName")
              /\ ChosenStem.some =>
                    /\ ChosenStem.val = <<"rustup">> => ret.val = Ok("rustup_mode")
                    /\ IsSetupStem(ChosenStem.val) => ret.val = Ok("setup_mode")
                    /\ IsGcStem(ChosenStem.val) =>
                          ret.val = (IF arg.windows THEN Ok("complete_windows_uninstall")
                                     ELSE Err("unreachable"))
                    /\ (/\ ChosenStem.val # <<"rustup">>
                        /\ ~IsSetupStem(ChosenStem.val)
                        /\ ~IsGcStem(ChosenStem.val)) =>
                          ret.val = Ok("is_proxyable_tools, proxy_mode")
C24_Witness ==
    /\ ret.op = "run_rustup_inner"
    /\ arg.force = Some(<<"cargo", ".", "exe">>)
    /\ arg.args = <<<<"rustup", "-init">>>>
    /\ ret.name = Some(<<"cargo">>)
    /\ ret.val = Ok("is_proxyable_tools, proxy_mode")

\* C31: a builder verb that returns an error leaves no part in the builder's
\* list, and while finish runs every part of the list is a path the
\* transaction created.
C31_FailedVerbNoPart ==
    /\ [][(pc = "building" /\ pc' = "rollback") => parts' = parts]_vars
    /\ [](pc \in FinishPcs =>
            \A i \in 1..Len(parts) : \E j \in 1..Len(changes) :
                /\ changes[j].path = parts[i].path
                /\ changes[j].type = (IF parts[i].kind = KindFile
                                      THEN "CreatedFile" ELSE "CreatedDir"))

\* C32: no name occurs more than once in the components file, whatever
\* installs and uninstalls were made on a prefix that started without a
\* repeated name (the empty prefix among them): finish for a name that is
\* listed fails and leaves the prefix as it is, and the rename at the start of
\* uninstall leaves no line equal to the name and every other name listed.
NoRepeat(ls) == \A i, j \in 1..Len(ls) : ls[i] = ls[j] => i = j
C32_NoRepeatedName ==
    /\ [](NoRepeat(list(fs)))
    /\ [][(pc = "building" /\ <<name>> \in Listed(fs) /\ pc' # "building") =>
            /\ pc' = "rollback"
            /\ fs' = fs]_vars
    /\ [][(pc = "u_rename" /\ pc' = "u_parts") =>
            /\ <<name>> \in Listed(fs)
            /\ Listed(fs') = Listed(fs) \ {<<name>>}]_vars
C32_Witness ==
    /\ pc = "rollback"
    /\ err = "ComponentConflict"
    /\ name = "a"
    /\ parts = <<>>
    /\ ops = 2
    /\ list(fs) = <<<<"a">>>>
    /\ ~path_exists(fs, <<"share">>)

\* C33: the prune enumeration terminates: every call of next leaves fewer
\* steps to go (the candidates not yet taken with their chains, and the rest
\* of the chain being walked), none is returned only when no candidate is
\* left, and the directories yielded are at most the sum of the depths of
\* the candidates.
RECURSIVE SumDepths(_)
SumDepths(S) ==
    IF S = {} THEN 0
    ELSE LET d == CHOOSE x \in S : TRUE IN Len(d) + SumDepths(S \ {d})
StepsLeft(it) ==
    SumDepths(it.iter) + Cardinality(it.iter)
        + (IF it.path_buf.some THEN Len(it.path_buf.val) ELSE 0)
PrunePcs == {"u_prune", "u_rmdir", "u_manifest"}
C33_PruneTerminates ==
    /\ [][(pc = "u_prune" /\ pc' \in {"u_rmdir", "u_manifest"}) =>
            /\ cur'.some => StepsLeft(piter') < StepsLeft(piter)
            /\ ~cur'.some => /\ piter'.iter = {}
                             /\ ~piter'.path_buf.some
                             /\ pc' = "u_manifest"]_vars
    /\ [](pc \in PrunePcs => Len(yielded) <= SumDepths(pset.dirs))

====
